---- MODULE Spec2Model ----
(***************************************************************************)
(* A model of the finiky PXE server core: the DHCP lease pool              *)
(* (src/src/dhcp/server.rs, IpPool), the DHCP packet codec (DhcpMessage),  *)
(* the TFTP read server (src/src/tftp/server.rs) and the directory-backed  *)
(* filesystem (src/src/filesystem/directory.rs).                           *)
(*                                                                         *)
(* Each subsystem has its own specification over the shared variables:     *)
(*   SpecPool   concurrent IpPool::allocate calls on one pool              *)
(*   SpecCodec  DhcpMessage::from_bytes / to_bytes on bounded inputs       *)
(*   SpecTftp   the TFTP main receive loop and its transfer tasks          *)
(*   SpecFs     DirectoryFileSystem::resolve_path / read_file / exists     *)
(***************************************************************************)
EXTENDS Integers, Sequences, FiniteSets, TLC

VARIABLES
  \* ---- IP pool (struct IpPool) and the threads calling allocate
  poolStart,    \* IpPool.start
  poolEnd,      \* IpPool.end
  current,      \* IpPool.current (the cursor), behind its own Mutex
  leases,       \* IpPool.leases: MAC -> IPv4, behind its own Mutex
  leasesLock,   \* holder of the leases Mutex (a thread, or NoThread)
  currentLock,  \* holder of the current Mutex
  apc,          \* per thread: position inside allocate
  amac,         \* per thread: the mac argument
  candidate,    \* per thread: the local `candidate`
  allocLog,     \* completed allocate calls, in return order: [mac, ret]
  \* ---- DHCP codec (DhcpMessage::from_bytes / to_bytes)
  wire,         \* the received datagram: a sequence of bytes
  decoded,      \* Result<DhcpMessage, String> of from_bytes(wire)
  encoded,      \* to_bytes of the decoded message
  cpc,          \* "input", "decoded" or "encoded"
  \* ---- directory-backed filesystem (struct DirectoryFileSystem)
  fsRoot,       \* DirectoryFileSystem.root: a canonical absolute path
  fsPath,       \* the virtual path a caller passes in
  fsCall,       \* the call made with it: [op, res]
  \* ---- TFTP read server (TftpServer::start and its transfer tasks)
  transfers,    \* active_transfers: peer -> the inbox (channel) registered
  chans,        \* the mpsc channels created so far: [q, rx]
  tasks,        \* per channel: the transfer task spawned with its receiver
  tlog,         \* per task: its socket sends and inbox receipts, in order
  mainPending,  \* the ACK the main loop is forwarding (tx.send(..).await)
  mainOut,      \* packets the main loop itself has sent: [to, pkt]
  \* ---- archive-backed filesystem (struct TarFileSystem)
  tarArchive,   \* the entries of the .tar.gz file, in order: [path, kind, data]
  tarEntries,   \* TarFileSystem.entries: path -> [data, is_dir]
  tarPath,      \* the virtual path a caller passes in
  tarCall,      \* the call made with it: [op, res]
  \* ---- DHCP responder (struct DhcpServer, the loop of DhcpServer::start)
  respConfig,   \* DhcpServer.config
  respLoop,     \* the receive loop: "running" or "panicked"
  respLast,     \* what the loop did with the last datagram
  respCount,    \* datagrams received so far
  \* ---- process startup (main, Server::start)
  bootEnv,      \* what startup meets: valid literals, roots, free ports
  bootPc,       \* the position of Server::start
  bootTasks,    \* the three spawned service tasks
  bootExit,     \* the exit code of the process, once it has ended
  \* ---- one call of a function that touches no state of the server
  callFn,       \* the function called
  callArgs,     \* its arguments
  callRet,      \* its return value, once it has returned
  \* ---- the Mutex around active_transfers, and the receive loop's position
  lockQueue,    \* callers of lock(), oldest first: the first one holds it
  mainAt,       \* where the receive loop stands between two awaits
  mainHand      \* the datagram the receive loop is handling: [peer, data]

poolVars == <<poolStart, poolEnd, current, leases, leasesLock, currentLock,
              apc, amac, candidate, allocLog>>

codecVars == <<wire, decoded, encoded, cpc>>

fsVars == <<fsRoot, fsPath, fsCall>>

tftpVars == <<transfers, chans, tasks, tlog, mainPending, mainOut>>

tarVars == <<tarArchive, tarEntries, tarPath, tarCall>>

respVars == <<respConfig, respLoop, respLast, respCount>>

bootVars == <<bootEnv, bootPc, bootTasks, bootExit>>

callVars == <<callFn, callArgs, callRet>>

lockVars == <<lockQueue, mainAt, mainHand>>

vars == <<poolVars, codecVars, fsVars, tftpVars, tarVars, respVars, bootVars, callVars, lockVars>>

(***************************************************************************)
(* Option<T>                                                               *)
(***************************************************************************)
Some(v) == [some |-> TRUE, val |-> v]

None == [some |-> FALSE, val |-> <<>>]

(***************************************************************************)
(* IPv4 addresses are four octets; Ipv4Addr orders them as the big-endian  *)
(* 32-bit value.                                                           *)
(***************************************************************************)
\* Ipv4Addr's Ord: the order of the big-endian 32-bit values, which is the
\* lexicographic order of the octets (the 32-bit value itself does not fit
\* TLC's integers, so the octets are compared).
IpLt(a, b) ==
  \E i \in 1..4 : a[i] < b[i] /\ \A j \in 1..(i - 1) : a[j] = b[j]

IpGt(a, b) == IpLt(b, a)

IpLe(a, b) == ~IpLt(b, a)

\* a - b as 32-bit values, for addresses whose upper halves are close.
IpDiff(a, b) ==
  ((a[1] * 256 + a[2]) - (b[1] * 256 + b[2])) * 65536
    + ((a[3] * 256 + a[4]) - (b[3] * 256 + b[4]))

\* ip + 1 as a 32-bit value (full carry, modulo 2^32).
IpSucc(ip) ==
  IF ip[4] < 255 THEN << ip[1], ip[2], ip[3], ip[4] + 1 >>
  ELSE IF ip[3] < 255 THEN << ip[1], ip[2], ip[3] + 1, 0 >>
  ELSE IF ip[2] < 255 THEN << ip[1], ip[2] + 1, 0, 0 >>
  ELSE << (ip[1] + 1) % 256, 0, 0, 0 >>

RECURSIVE IpPlus(_, _)
IpPlus(ip, d) == IF d = 0 THEN ip ELSE IpPlus(IpSucc(ip), d - 1)

\* u8::wrapping_add(1)
WrapAdd8(x) == (x + 1) % 256

\* The successor the allocator computes for both the cursor and the
\* candidate: the last octet is incremented with wrap-around, and when it
\* wraps to 0 the third octet is incremented with wrap-around; the first two
\* octets are never touched.
NextIp(ip) ==
  LET last == WrapAdd8(ip[4])
  IN  IF last = 0
        THEN << ip[1], ip[2], WrapAdd8(ip[3]), 0 >>
        ELSE << ip[1], ip[2], ip[3], last >>

(***************************************************************************)
(* Bounds of the pool model                                                *)
(***************************************************************************)
NumThreads == 2

NumMacs == 3

MaxSpan == 1

MaxCalls == 3

Threads == 1..NumThreads

NoThread == 0

\* 6-byte hardware addresses 00:11:22:33:44:xx
Macs == { <<0, 17, 34, 51, 68, k>> : k \in 1..NumMacs }

\* Pool configurations: (start, end) with start <= end as 32-bit values.
PoolStarts ==
  { <<192, 168, 1, 100>>, <<10, 0, 0, 255>>, <<10, 0, 255, 254>>,
    <<10, 0, 255, 255>> }

PoolConfigs ==
  { <<s, IpPlus(s, d)>> : s \in PoolStarts, d \in 0..MaxSpan }

PoolSize == IpDiff(poolEnd, poolStart) + 1

InPool(ip) == IpLe(poolStart, ip) /\ IpLe(ip, poolEnd)

(***************************************************************************)
(* IpPool::new                                                             *)
(***************************************************************************)
InitPool ==
  /\ \E c \in PoolConfigs : poolStart = c[1] /\ poolEnd = c[2]
  /\ current = poolStart
  /\ leases = << >>
  /\ leasesLock = NoThread
  /\ currentLock = NoThread
  /\ apc = [t \in Threads |-> "idle"]
  /\ amac = [t \in Threads |-> <<0, 0, 0, 0, 0, 0>>]
  /\ candidate = [t \in Threads |-> <<0, 0, 0, 0>>]
  /\ allocLog = << >>

(***************************************************************************)
(* std::sync::Mutex                                                        *)
(***************************************************************************)
CanLockAlways(holder) == TRUE

\* Mutex::lock returns only when no thread holds the mutex.
CanLock(holder) == holder = NoThread

\* Dropping a guard releases the mutex its thread holds.
Unlock(holder, t) == IF holder = t THEN NoThread ELSE holder

InFlight == Cardinality({ t \in Threads : apc[t] # "idle" })

\* `return r` from allocate: both guards are dropped and the result is
\* handed to the caller.
AllocReturn(t, r) ==
  /\ allocLog' = Append(allocLog, [mac |-> amac[t], ret |-> r])
  /\ leasesLock' = Unlock(leasesLock, t)
  /\ currentLock' = Unlock(currentLock, t)
  /\ apc' = [apc EXCEPT ![t] = "idle"]

\* allocate(mac): let mut leases = self.leases.lock().unwrap();
AllocLockLeases(t, mac) ==
  /\ apc[t] = "idle"
  /\ Len(allocLog) + InFlight < MaxCalls
  /\ CanLock(leasesLock)
  /\ leasesLock' = t
  /\ amac' = [amac EXCEPT ![t] = mac]
  /\ apc' = [apc EXCEPT ![t] = "lookup"]
  /\ UNCHANGED <<poolStart, poolEnd, current, leases, currentLock, candidate,
                 allocLog>>
  /\ UNCHANGED <<codecVars, fsVars, tftpVars, tarVars, respVars, bootVars, callVars, lockVars>>

LeaseOfNothing(mac) == None

\* leases.get(&mac)
LeaseOf(mac) == IF mac \in DOMAIN leases THEN Some(leases[mac]) ELSE None

\* if let Some(&ip) = leases.get(&mac) { return Some(ip); }
AllocLookup(t) ==
  /\ apc[t] = "lookup"
  /\ IF LeaseOf(amac[t]).some
       THEN /\ AllocReturn(t, LeaseOf(amac[t]))
       ELSE /\ apc' = [apc EXCEPT ![t] = "lock_current"]
            /\ UNCHANGED <<allocLog, leasesLock, currentLock>>
  /\ UNCHANGED <<poolStart, poolEnd, current, leases, amac, candidate>>
  /\ UNCHANGED <<codecVars, fsVars, tftpVars, tarVars, respVars, bootVars, callVars, lockVars>>

\* let mut current = self.current.lock().unwrap(); let mut candidate = *current;
AllocLockCurrent(t) ==
  /\ apc[t] = "lock_current"
  /\ CanLock(currentLock)
  /\ currentLock' = t
  /\ candidate' = [candidate EXCEPT ![t] = current]
  /\ apc' = [apc EXCEPT ![t] = "scan"]
  /\ UNCHANGED <<poolStart, poolEnd, current, leases, leasesLock, amac,
                 allocLog>>
  /\ UNCHANGED <<codecVars, fsVars, tftpVars, tarVars, respVars, bootVars, callVars, lockVars>>

\* leases.values().any(|&ip| ip == candidate)
IsLeased(ip) == \E m \in DOMAIN leases : leases[m] = ip

\* Top of the loop: wrap a candidate beyond end back to start, then test it.
AllocScan(t) ==
  /\ apc[t] = "scan"
  /\ LET c == IF IpGt(candidate[t], poolEnd) THEN poolStart ELSE candidate[t]
     IN  /\ candidate' = [candidate EXCEPT ![t] = c]
         /\ apc' = [apc EXCEPT ![t] = IF IsLeased(c) THEN "advance" ELSE "set_current"]
  /\ UNCHANGED <<poolStart, poolEnd, current, leases, leasesLock, currentLock,
                 amac, allocLog>>
  /\ UNCHANGED <<codecVars, fsVars, tftpVars, tarVars, respVars, bootVars, callVars, lockVars>>

\* *current = <successor of candidate>;
AllocSetCurrent(t) ==
  /\ apc[t] = "set_current"
  /\ current' = NextIp(candidate[t])
  /\ apc' = [apc EXCEPT ![t] = "insert"]
  /\ UNCHANGED <<poolStart, poolEnd, leases, leasesLock, currentLock, amac,
                 candidate, allocLog>>
  /\ UNCHANGED <<codecVars, fsVars, tftpVars, tarVars, respVars, bootVars, callVars, lockVars>>

\* HashMap::insert
Insert(map, k, v) ==
  [x \in DOMAIN map \cup {k} |-> IF x = k THEN v ELSE map[x]]

\* leases.insert(mac, candidate); return Some(candidate);
AllocInsert(t) ==
  /\ apc[t] = "insert"
  /\ leases' = Insert(leases, amac[t], candidate[t])
  /\ AllocReturn(t, Some(candidate[t]))
  /\ UNCHANGED <<poolStart, poolEnd, current, amac, candidate>>
  /\ UNCHANGED <<codecVars, fsVars, tftpVars, tarVars, respVars, bootVars, callVars, lockVars>>

\* candidate = <successor>; if candidate == *current { return None; }
AllocAdvance(t) ==
  /\ apc[t] = "advance"
  /\ LET c == NextIp(candidate[t])
     IN  /\ candidate' = [candidate EXCEPT ![t] = c]
         /\ IF c = current
              THEN AllocReturn(t, None)
              ELSE /\ apc' = [apc EXCEPT ![t] = "scan"]
                   /\ UNCHANGED <<allocLog, leasesLock, currentLock>>
  /\ UNCHANGED <<poolStart, poolEnd, current, leases, amac>>
  /\ UNCHANGED <<codecVars, fsVars, tftpVars, tarVars, respVars, bootVars, callVars, lockVars>>

(***************************************************************************)
(* Properties of the lease pool                                            *)
(***************************************************************************)
LeasesInjective ==
  \A m1, m2 \in DOMAIN leases : leases[m1] = leases[m2] => m1 = m2

\* The positions of allocate at which the thread holds the leases guard.
InAllocate(t) == apc[t] # "idle"

\* C1: for every interleaving of concurrent allocate calls on one pool, no
\* IPv4 address is leased to two distinct MACs, at most one thread is inside
\* allocate past the leases lock, and between the cursor update and the
\* lease insertion of one allocate no other allocate has touched the cursor
\* or the lease table (the cursor still is the successor of the candidate
\* and the candidate still is unleased).
C1_NoDoubleLease ==
  /\ LeasesInjective
  /\ \A t, u \in Threads : (InAllocate(t) /\ InAllocate(u)) => t = u
  /\ \A t \in Threads :
       apc[t] = "insert" =>
         /\ current = NextIp(candidate[t])
         /\ ~IsLeased(candidate[t])
         /\ leasesLock = t /\ currentLock = t

\* A third fresh allocation is about to insert while two leases exist.
C1_Witness ==
  /\ Cardinality(DOMAIN leases) >= 1
  /\ Len(allocLog) >= 2
  /\ \E t \in Threads : apc[t] = "insert" /\ amac[t] \notin DOMAIN leases

\* C2: every IP stored in the lease table and every IP returned by allocate
\* lies in [pool_start, pool_end] inclusive, for every pool with
\* start <= end.
C2_LeasesInPool ==
  /\ \A m \in DOMAIN leases : InPool(leases[m])
  /\ \A i \in 1..Len(allocLog) :
       allocLog[i].ret.some => InPool(allocLog[i].ret.val)

\* C3: allocate is idempotent per MAC: once allocate(m) has returned an IP,
\* every later allocate(m) returns the same IP whatever calls for other MACs
\* lie in between, and calls for different MACs never return the same IP
\* (so a Discover and a later Request of one client are answered with the
\* same address).
C3_Idempotent ==
  \A i, j \in 1..Len(allocLog) :
    /\ (i < j /\ allocLog[i].mac = allocLog[j].mac /\ allocLog[i].ret.some)
          => allocLog[j].ret = allocLog[i].ret
    /\ (allocLog[i].mac # allocLog[j].mac /\ allocLog[i].ret.some
          /\ allocLog[j].ret.some)
          => allocLog[i].ret.val # allocLog[j].ret.val

\* allocate(m), allocate(other), allocate(m) have all returned an address.
C3_Witness ==
  \E i, k, j \in 1..Len(allocLog) :
    /\ i < k /\ k < j
    /\ allocLog[i].mac = allocLog[j].mac
    /\ allocLog[k].mac # allocLog[i].mac
    /\ allocLog[i].ret.some /\ allocLog[k].ret.some /\ allocLog[j].ret.some

LogMacsDistinct ==
  \A i, j \in 1..Len(allocLog) : allocLog[i].mac = allocLog[j].mac => i = j

\* C4: for allocate calls with pairwise distinct MACs against a pool of size
\* N = end - start + 1, the first N calls return pairwise distinct IPs in
\* [start, end], and the (N+1)th returns None and leaves the lease table as
\* the first N calls made it.
C4_ExhaustAfterN ==
  LogMacsDistinct =>
    \A i \in 1..Len(allocLog) :
      /\ i <= PoolSize =>
           /\ allocLog[i].ret.some
           /\ InPool(allocLog[i].ret.val)
           /\ \A j \in 1..Len(allocLog) :
                (j # i /\ allocLog[j].ret.some)
                   => allocLog[j].ret.val # allocLog[i].ret.val
      /\ i = PoolSize + 1 =>
           /\ allocLog[i].ret = None
           /\ (InFlight = 0 /\ Len(allocLog) = i) =>
                DOMAIN leases = { allocLog[k].mac : k \in 1..PoolSize }

\* The pools on which the allocator's successor agrees with +1 on the 32-bit
\* value for every address it is applied to (start .. end).
CarryFree ==
  poolStart[1] = poolEnd[1] /\ poolStart[2] = poolEnd[2]
    /\ ~(poolEnd[3] = 255 /\ poolEnd[4] = 255)

\* Sanity: on carry-free pools C2 and C4 do hold.
CarryFreeInPool == CarryFree => (C2_LeasesInPool /\ C4_ExhaustAfterN)

\* The address a scan meets first when it goes from the cursor cur upward
\* in steps of 1 on the 32-bit value and from end back to start (a cursor
\* outside the pool counts as start): the k-th address of the scan is
\* start + ((cur - start + k) mod N).
FirstUnleased(cur) ==
  LET from == IF InPool(cur) THEN IpDiff(cur, poolStart) ELSE 0
      At(k) == IpPlus(poolStart, (from + k) % PoolSize)
      free == { k \in 0..(PoolSize - 1) : ~IsLeased(At(k)) }
  IN  IF free = {} THEN None
      ELSE Some(At(CHOOSE k \in free : \A j \in free : k <= j))

\* C31: a fresh allocation returns the first unleased IP met when scanning
\* from the cursor upward in steps of 1 on the 32-bit value, wrapping from
\* end to start; after it the cursor is ip + 1, or start when ip = end; on
\* an empty pool successive new MACs receive start, start+1, start+2, ...
C31_FreshScan ==
  /\ \A t \in Threads :
       /\ apc[t] = "set_current" => Some(candidate[t]) = FirstUnleased(current)
       /\ apc[t] = "insert" =>
            current = IF candidate[t] = poolEnd THEN poolStart
                      ELSE IpSucc(candidate[t])
  /\ LogMacsDistinct =>
       \A i \in 1..Len(allocLog) :
         i <= PoolSize => allocLog[i].ret = Some(IpPlus(poolStart, i - 1))

\* What does hold: on pools that need no carry into the second octet the
\* scan is the one described, and the cursor is left at ip + 1 also when
\* ip = end (the step back to start is taken by the next scan).
FreshScanCarryFree ==
  CarryFree =>
    /\ \A t \in Threads :
         /\ apc[t] = "set_current" => Some(candidate[t]) = FirstUnleased(current)
         /\ apc[t] = "insert" => current = IpSucc(candidate[t])
    /\ LogMacsDistinct =>
         \A i \in 1..Len(allocLog) :
           i <= PoolSize => allocLog[i].ret = Some(IpPlus(poolStart, i - 1))

PoolStep ==
  \/ \E t \in Threads, mac \in Macs : AllocLockLeases(t, mac)
  \/ \E t \in Threads : AllocLookup(t)
  \/ \E t \in Threads : AllocLockCurrent(t)
  \/ \E t \in Threads : AllocScan(t)
  \/ \E t \in Threads : AllocSetCurrent(t)
  \/ \E t \in Threads : AllocInsert(t)
  \/ \E t \in Threads : AllocAdvance(t)


(***************************************************************************)
(* DHCP packet codec: struct DhcpMessage, from_bytes, to_bytes.            *)
(* Byte sequences are 1-based here; Rust's data[k] is data[k + 1].         *)
(***************************************************************************)
\* data[a..b]
Slice(data, a, b) == SubSeq(data, a + 1, b)

\* vec![0u8; n]
Zeros(n) == [i \in 1..n |-> 0]

\* data[off..off + len(bytes)].copy_from_slice(bytes)
CopyFromSlice(data, off, bytes) ==
  [i \in 1..Len(data) |->
     IF off < i /\ i <= off + Len(bytes) THEN bytes[i - off] ELSE data[i]]

\* u16::from_be_bytes and u16::to_be_bytes
U16FromBe(b) == b[1] * 256 + b[2]

U16ToBe(x) == << x \div 256, x % 256 >>

\* u32::from_be_bytes and u32::to_be_bytes. A 32-bit value v is held as its
\* two 16-bit halves (v = hi * 65536 + lo).
U32FromBe(b) == [hi |-> b[1] * 256 + b[2], lo |-> b[3] * 256 + b[4]]

U32ToBe(x) == << x.hi \div 256, x.hi % 256, x.lo \div 256, x.lo % 256 >>

\* Ipv4Addr::new(a, b, c, d) and Ipv4Addr::octets
Ipv4New(a, b, c, d) == << a, b, c, d >>

Octets(ip) == << ip[1], ip[2], ip[3], ip[4] >>

Ok(v) == [ok |-> TRUE, val |-> v]

Err(e) == [ok |-> FALSE, val |-> e]

MIN_DHCP_LEN == 240

\* from_bytes that wants more than the fixed part.
FromBytesAbove(data) ==
  IF Len(data) <= MIN_DHCP_LEN
    THEN Err("DHCP message too short")
    ELSE Ok([ op      |-> data[1],
              htype   |-> data[2],
              hlen    |-> data[3],
              hops    |-> data[4],
              xid     |-> U32FromBe(<<data[5], data[6], data[7], data[8]>>),
              secs    |-> U16FromBe(<<data[9], data[10]>>),
              flags   |-> U16FromBe(<<data[11], data[12]>>),
              ciaddr  |-> Ipv4New(data[13], data[14], data[15], data[16]),
              yiaddr  |-> Ipv4New(data[17], data[18], data[19], data[20]),
              siaddr  |-> Ipv4New(data[21], data[22], data[23], data[24]),
              giaddr  |-> Ipv4New(data[25], data[26], data[27], data[28]),
              chaddr  |-> Slice(data, 28, 44),
              options |-> IF Len(data) > MIN_DHCP_LEN
                            THEN Slice(data, MIN_DHCP_LEN, Len(data))
                            ELSE << >> ])

\* DhcpMessage::from_bytes
FromBytes(data) ==
  IF Len(data) < MIN_DHCP_LEN
    THEN Err("DHCP message too short")
    ELSE Ok([ op      |-> data[1],
              htype   |-> data[2],
              hlen    |-> data[3],
              hops    |-> data[4],
              xid     |-> U32FromBe(<<data[5], data[6], data[7], data[8]>>),
              secs    |-> U16FromBe(<<data[9], data[10]>>),
              flags   |-> U16FromBe(<<data[11], data[12]>>),
              ciaddr  |-> Ipv4New(data[13], data[14], data[15], data[16]),
              yiaddr  |-> Ipv4New(data[17], data[18], data[19], data[20]),
              siaddr  |-> Ipv4New(data[21], data[22], data[23], data[24]),
              giaddr  |-> Ipv4New(data[25], data[26], data[27], data[28]),
              chaddr  |-> Slice(data, 28, 44),
              options |-> IF Len(data) > MIN_DHCP_LEN
                            THEN Slice(data, MIN_DHCP_LEN, Len(data))
                            ELSE << >> ])

\* DhcpMessage::to_bytes: a zeroed 240-byte prefix, the fields copied to
\* offsets 0..44, then the options appended.
ToBytes(msg) ==
  LET d0  == Zeros(MIN_DHCP_LEN)
      d1  == CopyFromSlice(d0, 0, <<msg.op, msg.htype, msg.hlen, msg.hops>>)
      d2  == CopyFromSlice(d1, 4, U32ToBe(msg.xid))
      d3  == CopyFromSlice(d2, 8, U16ToBe(msg.secs))
      d4  == CopyFromSlice(d3, 10, U16ToBe(msg.flags))
      d5  == CopyFromSlice(d4, 12, Octets(msg.ciaddr))
      d6  == CopyFromSlice(d5, 16, Octets(msg.yiaddr))
      d7  == CopyFromSlice(d6, 20, Octets(msg.siaddr))
      d8  == CopyFromSlice(d7, 24, Octets(msg.giaddr))
      d9  == CopyFromSlice(d8, 28, msg.chaddr)
  IN  d9 \o msg.options

(***************************************************************************)
(* Inputs of the codec: datagrams as a client or a test would send them.   *)
(***************************************************************************)
MagicCookie == << 99, 130, 83, 99 >>

\* Bytes 44..240 of a datagram: sname (64), file (128) and the cookie (4).
WireTails ==
  { Zeros(192) \o MagicCookie,                       \* RFC 2131 frame
    Zeros(196),                                      \* no cookie
    <<112, 120, 101>> \o Zeros(189) \o MagicCookie } \* sname "pxe"

WireOptions ==
  { << >>,
    << 53, 1, 1, 255 >>,                   \* Discover
    << 53, 1, 3, 93, 2, 0, 6, 255 >> }     \* Request, client arch 6

WireHeads ==
  { << op, 1, 6, 0 >> \o xid \o << 0, 4 >> \o flags
      \o Zeros(16) \o << 0, 17, 34, 51, 68, 85 >> \o Zeros(10) :
      op \in {1, 2},
      xid \in { <<18, 52, 86, 120>>, <<255, 255, 255, 255>> },
      flags \in { <<0, 0>>, <<128, 0>> } }

\* Well-sized datagrams, and truncated ones.
WireInputs ==
  { h \o t \o o : h \in WireHeads, t \in WireTails, o \in WireOptions }
    \cup { Zeros(n) : n \in {0, 239} }

InitCodec ==
  /\ wire \in WireInputs
  /\ decoded = None
  /\ encoded = << >>
  /\ cpc = "input"

\* let request = DhcpMessage::from_bytes(data)
CodecDecode ==
  /\ cpc = "input"
  /\ decoded' = FromBytes(wire)
  /\ cpc' = "decoded"
  /\ UNCHANGED <<wire, encoded>>
  /\ UNCHANGED <<poolVars, fsVars, tftpVars, tarVars, respVars, bootVars, callVars, lockVars>>

\* request.to_bytes()
CodecEncode ==
  /\ cpc = "decoded"
  /\ decoded.ok
  /\ encoded' = ToBytes(decoded.val)
  /\ cpc' = "encoded"
  /\ UNCHANGED <<wire, decoded>>
  /\ UNCHANGED <<poolVars, fsVars, tftpVars, tarVars, respVars, bootVars, callVars, lockVars>>

CodecStep == CodecDecode \/ CodecEncode

\* C5: for every byte sequence b of length >= 240, to_bytes(from_bytes(b))
\* equals b: the first 240 bytes and the options are reproduced.
C5_RoundTrip ==
  (cpc = "encoded" /\ Len(wire) >= MIN_DHCP_LEN) => encoded = wire

\* What the round trip does preserve: bytes 0..44 and the options.
RoundTripFields ==
  cpc = "encoded" =>
    /\ Len(encoded) = Len(wire)
    /\ Slice(encoded, 0, 44) = Slice(wire, 0, 44)
    /\ Slice(encoded, 44, MIN_DHCP_LEN) = Zeros(196)
    /\ Slice(encoded, MIN_DHCP_LEN, Len(encoded)) = Slice(wire, MIN_DHCP_LEN, Len(wire))

\* C25: from_bytes fails with the too-short error exactly when the input
\* has fewer than 240 bytes; every input of 240 bytes or more decodes,
\* whatever stands where the magic cookie and the options belong, and a
\* 240-byte input yields an empty options block.
C25_FromBytes ==
  cpc # "input" =>
    IF Len(wire) < 240
      THEN ~decoded.ok /\ decoded.val = "DHCP message too short"
      ELSE /\ decoded.ok
           /\ decoded.val.options = SubSeq(wire, 241, Len(wire))
           /\ Len(wire) = 240 => decoded.val.options = << >>

\* A 240-byte datagram without the magic cookie has been decoded.
C25_Witness ==
  /\ cpc = "decoded" /\ Len(wire) = 240
  /\ SubSeq(wire, 237, 240) # << 99, 130, 83, 99 >>
  /\ decoded.ok /\ decoded.val.options = << >>

\* C6: every message produced by to_bytes has the magic cookie
\* 0x63 0x82 0x53 0x63 at byte offsets 236..240, immediately followed by the
\* options block.
C6_MagicCookie ==
  cpc = "encoded" =>
    /\ Slice(encoded, 236, 240) = MagicCookie
    /\ Slice(encoded, 240, Len(encoded)) = decoded.val.options

(***************************************************************************)
(* The disk under the directory-backed filesystem. A file name is a byte   *)
(* string; an absolute canonical path is the sequence of its names.        *)
(***************************************************************************)
SLASH == 47

DOT == 46

Dir == [kind |-> "dir"]

File(b) == [kind |-> "file", bytes |-> b]

Link(target) == [kind |-> "link", target |-> target]

\* n bytes of content that differ from file to file (by seed).
Content(seed, n) == [i \in 1..n |-> (i * 7 + seed) % 256]

\*  /            /e  /e/p        /t (served)   /r -> /t
\*  /t/h 13 B    /t/z 0 B   /t/k 512 B   /t/b 1024 B   /t/m 1025 B
\*  /t/d (dir)   /t/o -> /e
Disk ==
  ( << >>                  :> Dir ) @@
  ( << <<101>> >>          :> Dir ) @@
  ( << <<101>>, <<112>> >> :> File(Content(1, 5)) ) @@
  ( << <<116>> >>          :> Dir ) @@
  ( << <<114>> >>          :> Link(<< <<116>> >>) ) @@
  ( << <<116>>, <<104>> >> :> File(Content(2, 13)) ) @@
  ( << <<116>>, <<122>> >> :> File(<< >>) ) @@
  ( << <<116>>, <<107>> >> :> File(Content(3, 512)) ) @@
  ( << <<116>>, <<98>> >>  :> File(Content(4, 1024)) ) @@
  ( << <<116>>, <<109>> >> :> File(Content(5, 1025)) ) @@
  ( << <<116>>, <<100>> >> :> Dir ) @@
  ( << <<116>>, <<111>> >> :> Link(<< <<101>> >>) )

\* The longest chain of symbolic links the kernel follows is far above what
\* this disk holds; the bound only makes the recursion well-founded.
MaxLinks == 4

\* str::split('/') on a byte string: the components, empty ones kept.
RECURSIVE SplitSlash(_)
SplitSlash(str) ==
  IF \A i \in 1..Len(str) : str[i] # SLASH
    THEN << str >>
    ELSE LET k == CHOOSE i \in 1..Len(str) :
                    str[i] = SLASH /\ \A j \in 1..(i - 1) : str[j] # SLASH
         IN  << SubSeq(str, 1, k - 1) >> \o SplitSlash(SubSeq(str, k + 1, Len(str)))

\* std::fs::canonicalize (realpath) of the path cur/rest, cur being
\* canonical: every component must exist, "." and empty components are
\* skipped, ".." goes to the parent, a symbolic link is replaced by its
\* target, and a component that is not a directory may only come last.
RECURSIVE Canon(_, _, _)
Canon(cur, rest, links) ==
  IF rest = << >> THEN Ok(cur)
  ELSE LET c == Head(rest)
           more == Tail(rest)
       IN  IF c = << >> \/ c = << DOT >> THEN Canon(cur, more, links)
           ELSE IF c = << DOT, DOT >>
             THEN Canon(IF cur = << >> THEN cur ELSE SubSeq(cur, 1, Len(cur) - 1),
                        more, links)
           ELSE LET child == Append(cur, c)
                IN  IF child \notin DOMAIN Disk THEN Err("ENOENT")
                    ELSE IF Disk[child].kind = "link"
                      THEN IF links = 0 THEN Err("ELOOP")
                           ELSE Canon(<< >>, Disk[child].target \o more, links - 1)
                    ELSE IF Disk[child].kind = "file" /\ more # << >>
                      THEN Err("ENOTDIR")
                    ELSE Canon(child, more, links)

\* Path::canonicalize of an absolute path given as its components.
Canonicalize(comps) == Canon(<< >>, comps, MaxLinks)

\* str::trim_start_matches('/')
RECURSIVE TrimStartSlash(_)
TrimStartSlash(str) ==
  IF str # << >> /\ Head(str) = SLASH THEN TrimStartSlash(Tail(str)) ELSE str

\* Path::starts_with: a prefix in whole components.
StartsWith(path, base) ==
  Len(base) <= Len(path) /\ SubSeq(path, 1, Len(base)) = base

\* self.root.join(path): root followed by the components of the relative
\* path (trim_start_matches has removed every leading '/').
Join(root, str) == root \o SplitSlash(str)

ResolvePathUnchecked(root, path) ==
  LET full == Canonicalize(Join(root, TrimStartSlash(path)))
  IN  IF ~full.ok THEN Err("NotFound") ELSE Ok(full.val)

\* DirectoryFileSystem::resolve_path
ResolvePath(root, path) ==
  LET normalized == TrimStartSlash(path)
      full == Canonicalize(Join(root, normalized))
  IN  IF ~full.ok THEN Err("NotFound")
      ELSE IF ~StartsWith(full.val, root) THEN Err("InvalidPath")
      ELSE Ok(full.val)

\* DirectoryFileSystem::read_file
ReadFile(root, path) ==
  LET file_path == ResolvePath(root, path)
  IN  IF ~file_path.ok THEN file_path
      ELSE IF Disk[file_path.val].kind # "file" THEN Err("NotFound")
      ELSE Ok(Disk[file_path.val].bytes)

ExistsAlways(root, path) == TRUE

\* DirectoryFileSystem::exists
Exists(root, path) ==
  LET r == ResolvePath(root, path)
  IN  IF r.ok THEN r.val \in DOMAIN Disk ELSE FALSE

\* The root paths the server may be configured with: /t, and /r (a symbolic
\* link to /t).
RootConfigs == { << <<116>> >>, << <<114>> >> }

\* Bound on the length of the virtual paths tried.
MaxPathLen == 5

\* '/', '.', 'e', 'p', 'h', 'o'
PathChars == { SLASH, DOT, 101, 112, 104, 111 }

RECURSIVE StringsUpTo(_)
StringsUpTo(n) ==
  IF n = 0 THEN { << >> }
  ELSE LET shorter == StringsUpTo(n - 1)
       IN  shorter \cup { Append(str, c) : str \in { x \in shorter : Len(x) = n - 1 },
                                           c \in PathChars }

VirtualPaths == StringsUpTo(MaxPathLen)

\* DirectoryFileSystem::new(root): the canonicalized root, a directory. The
\* caller's path is drawn here; one call is then made with it.
InitFs ==
  /\ \E cfg \in RootConfigs :
       /\ Canonicalize(cfg).ok
       /\ Disk[Canonicalize(cfg).val].kind = "dir"
       /\ fsRoot = Canonicalize(cfg).val
  /\ fsPath \in VirtualPaths
  /\ fsCall = [op |-> "none", res |-> Ok(<< >>)]

FsReadFile ==
  /\ fsCall.op = "none"
  /\ fsCall' = [op |-> "read_file", res |-> ReadFile(fsRoot, fsPath)]
  /\ UNCHANGED <<fsRoot, fsPath>>
  /\ UNCHANGED <<poolVars, codecVars, tftpVars, tarVars, respVars, bootVars, callVars, lockVars>>

FsExists ==
  /\ fsCall.op = "none"
  /\ fsCall' = [op |-> "exists", res |-> Ok(Exists(fsRoot, fsPath))]
  /\ UNCHANGED <<fsRoot, fsPath>>
  /\ UNCHANGED <<poolVars, codecVars, tftpVars, tarVars, respVars, bootVars, callVars, lockVars>>

\* The contents of the files that lie outside the served root.
OutsideBytes ==
  { Disk[q].bytes : q \in { x \in DOMAIN Disk :
                              Disk[x].kind = "file" /\ ~StartsWith(x, fsRoot) } }

\* C10: for every virtual path, with canon the canonicalization of root
\* joined with the path (leading '/' stripped): if canon fails, read_file
\* returns NotFound (and exists is false); if canon succeeds outside root,
\* read_file returns InvalidPath (and exists is false); read_file never
\* returns the bytes of a file outside root; and the verdict depends on the
\* canonical path only.
C10_Sandbox ==
  fsCall.op \in {"read_file", "exists"} =>
    LET canon == Canonicalize(fsRoot \o SplitSlash(TrimStartSlash(fsPath)))
        denied == IF fsCall.op = "read_file" THEN ~fsCall.res.ok
                  ELSE fsCall.res = Ok(FALSE)
    IN  /\ ~canon.ok =>
             /\ denied
             /\ fsCall.op = "read_file" => fsCall.res = Err("NotFound")
        /\ (canon.ok /\ ~StartsWith(canon.val, fsRoot)) =>
             /\ denied
             /\ fsCall.op = "read_file" => fsCall.res = Err("InvalidPath")
        /\ (fsCall.op = "read_file" /\ fsCall.res.ok) =>
             /\ fsCall.res.val \notin OutsideBytes
             /\ canon.ok /\ StartsWith(canon.val, fsRoot)
             /\ Disk[canon.val] = File(fsCall.res.val)

\* A path with no ".." in it that leaves the root through a symbolic link
\* ("o/p", i.e. /t/o/p -> /e/p) was read and refused as InvalidPath.
C10_Witness ==
  /\ fsCall.op = "read_file"
  /\ fsPath = << 111, SLASH, 112 >>
  /\ Canonicalize(fsRoot \o SplitSlash(fsPath)) = Ok(<< <<101>>, <<112>> >>)
  /\ fsCall.res = Err("InvalidPath")

\* Concrete cases of resolve_path on the disk above, root /t.
FsExamples ==
  LET root == << <<116>> >>
  IN  /\ ReadFile(root, << 104 >>) = Ok(Content(2, 13))
      /\ ReadFile(root, << SLASH, SLASH, 104 >>) = Ok(Content(2, 13))
      /\ ReadFile(root, << 104, SLASH >>) = Err("NotFound")
      /\ ReadFile(root, << DOT, DOT, SLASH, 101, SLASH, 112 >>) = Err("InvalidPath")
      /\ ReadFile(root, << DOT, DOT, SLASH, 116, SLASH, 104 >>) = Ok(Content(2, 13))
      /\ ReadFile(root, << 111, SLASH, 112 >>) = Err("InvalidPath")
      /\ ReadFile(root, << 111 >>) = Err("InvalidPath")
      /\ ReadFile(root, << 112 >>) = Err("NotFound")
      /\ ReadFile(root, << 100 >>) = Err("NotFound")
      /\ Exists(root, << 100 >>)
      /\ Exists(root, << >>)
      /\ ~Exists(root, << DOT, DOT >>)
      /\ ReadFile(root, << DOT, DOT, SLASH, DOT, DOT, SLASH, 116, SLASH, 122 >>) = Ok(<< >>)

(***************************************************************************)
(* Archive-backed filesystem: struct TarFileSystem                         *)
(***************************************************************************)
\* str::starts_with(pat)
HasPrefix(str, pat) ==
  Len(pat) <= Len(str) /\ SubSeq(str, 1, Len(pat)) = pat

\* str::trim_start_matches(pat) for a string pattern: the pattern is removed
\* from the front as often as it matches.
RECURSIVE TrimStartMatches(_, _)
TrimStartMatches(str, pat) ==
  IF pat # << >> /\ HasPrefix(str, pat)
    THEN TrimStartMatches(SubSeq(str, Len(pat) + 1, Len(str)), pat)
    ELSE str

\* str::ends_with('/')
EndsWithSlash(str) == str # << >> /\ str[Len(str)] = SLASH

\* One turn of the loop over archive.entries() in TarFileSystem::new: the
\* path loses its leading "./"s; a directory is stored under its path with a
\* trailing '/', a regular file under its path; anything else is skipped.
LoadEntry(entries, e) ==
  LET normalized_path == TrimStartMatches(e.path, << DOT, SLASH >>)
  IN  IF e.kind = "dir"
        THEN LET dir_path == IF EndsWithSlash(normalized_path)
                               THEN normalized_path
                               ELSE Append(normalized_path, SLASH)
             IN  Insert(entries, dir_path, [data |-> << >>, is_dir |-> TRUE])
      ELSE IF e.kind = "file"
        THEN Insert(entries, normalized_path, [data |-> e.data, is_dir |-> FALSE])
      ELSE entries

\* The loop of TarFileSystem::new over the whole archive.
RECURSIVE LoadEntries(_, _)
LoadEntries(entries, archive) ==
  IF archive = << >> THEN entries
  ELSE LoadEntries(LoadEntry(entries, Head(archive)), Tail(archive))

\* TarFileSystem::normalize_path
NormalizePath(path) == TrimStartSlash(path)

\* TarFileSystem::read_file
TarReadFile(entries, path) ==
  LET normalized == NormalizePath(path)
  IN  IF normalized \in DOMAIN entries
        THEN IF ~entries[normalized].is_dir
               THEN Ok(entries[normalized].data)
               ELSE Err("NotFound")
        ELSE Err("NotFound")

\* TarFileSystem::exists
TarExists(entries, path) == NormalizePath(path) \in DOMAIN entries

\* str::split('/').next(): the bytes before the first '/'.
RECURSIVE FirstComponent(_)
FirstComponent(str) ==
  IF str = << >> \/ Head(str) = SLASH THEN << >>
  ELSE << Head(str) >> \o FirstComponent(Tail(str))

\* The loop of TarFileSystem::list_dir over self.entries.keys(), which come
\* in the order the hash map yields them: a key below the prefix contributes
\* its first component after the prefix unless that component was seen, with
\* a '/' appended when some key starts with prefix + component + '/'.
RECURSIVE ListDirLoop(_, _, _, _, _)
ListDirLoop(keys, prefix, order, out, seen) ==
  IF order = << >> THEN out
  ELSE LET entry_path == Head(order)
       IN  IF HasPrefix(entry_path, prefix)
             THEN LET relative == SubSeq(entry_path, Len(prefix) + 1, Len(entry_path))
                      first_component == FirstComponent(relative)
                      sub_prefix == prefix \o first_component \o << SLASH >>
                      is_dir == \E k \in keys : HasPrefix(k, sub_prefix)
                  IN  IF first_component \notin seen
                        THEN ListDirLoop(keys, prefix, Tail(order),
                               Append(out, IF is_dir
                                             THEN Append(first_component, SLASH)
                                             ELSE first_component),
                               seen \cup { first_component })
                        ELSE ListDirLoop(keys, prefix, Tail(order), out, seen)
             ELSE ListDirLoop(keys, prefix, Tail(order), out, seen)

\* TarFileSystem::list_dir, with the keys iterated in the given order.
TarListDir(entries, path, order) ==
  LET normalized == NormalizePath(path)
      prefix == IF normalized = << >> THEN << >>
                ELSE IF EndsWithSlash(normalized) THEN normalized
                ELSE Append(normalized, SLASH)
  IN  Ok(ListDirLoop(DOMAIN entries, prefix, order, << >>, {}))

\* Bound on the number of entries of an archive.
MaxEntries == 2

TarFile(path, data) == [path |-> path, kind |-> "file", data |-> data]

TarDir(path) == [path |-> path, kind |-> "dir", data |-> << >>]

TarOther(path) == [path |-> path, kind |-> "other", data |-> << >>]

\* Entries as archivers write them: a, ./a, /a, ././a (files), d/ and ./d
\* (directories), d/a (a file below d), l (a symbolic link).
ArchiveEntries ==
  { TarFile(<< 97 >>, Content(11, 3)),
    TarFile(<< DOT, SLASH, 97 >>, Content(12, 4)),
    TarFile(<< SLASH, 97 >>, Content(13, 5)),
    TarFile(<< DOT, SLASH, DOT, SLASH, 97 >>, Content(14, 6)),
    TarDir(<< 100, SLASH >>),
    TarDir(<< DOT, SLASH, 100 >>),
    TarFile(<< 100, SLASH, 97 >>, Content(15, 7)),
    TarOther(<< 108 >>) }

RECURSIVE SeqsUpTo(_, _)
SeqsUpTo(S, n) ==
  IF n = 0 THEN { << >> }
  ELSE LET shorter == SeqsUpTo(S, n - 1)
       IN  shorter \cup { Append(q, x) : q \in { y \in shorter : Len(y) = n - 1 },
                                         x \in S }

Archives == SeqsUpTo(ArchiveEntries, MaxEntries)

\* The paths a client asks for: every entry's path as the archive spells it,
\* the same behind a '/', and x, d, /d/, the empty path and /.
TarPaths ==
  { e.path : e \in ArchiveEntries }
    \cup { << SLASH >> \o e.path : e \in ArchiveEntries }
    \cup { << 120 >>, << 100 >>, << SLASH, 100, SLASH >>, << >>, << SLASH >> }

\* Before TarFileSystem::new has run there is no entry table.
InitTar ==
  /\ tarArchive \in Archives
  /\ tarEntries = None
  /\ tarPath \in TarPaths
  /\ tarCall = [op |-> "none", res |-> Ok(<< >>)]

\* TarFileSystem::new(path) on a readable archive.
TarNew ==
  /\ ~tarEntries.some
  /\ tarEntries' = Some(LoadEntries(<< >>, tarArchive))
  /\ UNCHANGED <<tarArchive, tarPath, tarCall>>
  /\ UNCHANGED <<poolVars, codecVars, fsVars, tftpVars, respVars, bootVars, callVars, lockVars>>

TarCallReadFile ==
  /\ tarEntries.some /\ tarCall.op = "none"
  /\ tarCall' = [op |-> "read_file", res |-> TarReadFile(tarEntries.val, tarPath)]
  /\ UNCHANGED <<tarArchive, tarEntries, tarPath>>
  /\ UNCHANGED <<poolVars, codecVars, fsVars, tftpVars, respVars, bootVars, callVars, lockVars>>

TarCallExists ==
  /\ tarEntries.some /\ tarCall.op = "none"
  /\ tarCall' = [op |-> "exists", res |-> Ok(TarExists(tarEntries.val, tarPath))]
  /\ UNCHANGED <<tarArchive, tarEntries, tarPath>>
  /\ UNCHANGED <<poolVars, codecVars, fsVars, tftpVars, respVars, bootVars, callVars, lockVars>>

\* The orders in which a hash map may yield the keys of S.
KeyOrders(S) ==
  { q \in SeqsUpTo(S, Cardinality(S)) :
      Len(q) = Cardinality(S) /\ \A i, j \in 1..Len(q) : q[i] = q[j] => i = j }

TarCallListDir ==
  /\ tarEntries.some /\ tarCall.op = "none"
  /\ \E order \in KeyOrders(DOMAIN tarEntries.val) :
       tarCall' = [op |-> "list_dir", res |-> TarListDir(tarEntries.val, tarPath, order)]
  /\ UNCHANGED <<tarArchive, tarEntries, tarPath>>
  /\ UNCHANGED <<poolVars, codecVars, fsVars, tftpVars, respVars, bootVars, callVars, lockVars>>

(***************************************************************************)
(* Properties of the archive-backed filesystem                             *)
(***************************************************************************)
\* The call returned Ok(data).
ReturnedOk(call, data) == call.res.ok /\ call.res.val = data

\* The call returned the error e.
ReturnedErr(call, e) == ~call.res.ok /\ call.res.val = e

\* The name of an archive entry with its leading "./"s, leading '/'s and
\* trailing '/' left out.
EntryName(path) ==
  LET q == TrimStartSlash(TrimStartMatches(path, << DOT, SLASH >>))
  IN  IF EndsWithSlash(q) THEN SubSeq(q, 1, Len(q) - 1) ELSE q

\* No two entries of the archive name the same file or directory.
NamesDistinct ==
  \A i, j \in 1..Len(tarArchive) :
    EntryName(tarArchive[i].path) = EntryName(tarArchive[j].path) => i = j

\* C11: for every file entry of the archive with path p and bytes B, also
\* one whose path begins with "./" or "/", read_file(p) and
\* read_file("/" + p) return B; read_file of a directory entry's path, or of
\* a path that names no entry, returns NotFound.
C11_TarRead ==
  (tarCall.op = "read_file" /\ NamesDistinct) =>
    /\ \A i \in 1..Len(tarArchive) :
         LET e == tarArchive[i]
         IN  tarPath \in { e.path, << SLASH >> \o e.path } =>
               /\ e.kind = "file" => ReturnedOk(tarCall, e.data)
               /\ e.kind = "dir" => ReturnedErr(tarCall, "NotFound")
    /\ (\A i \in 1..Len(tarArchive) :
          EntryName(tarArchive[i].path) # EntryName(tarPath))
         => ReturnedErr(tarCall, "NotFound")

\* What does hold: a file entry is read back under its path without the
\* leading "./"s, with any number of '/' in front, unless that path itself
\* begins with '/'.
TarReadStored ==
  (tarCall.op = "read_file" /\ NamesDistinct) =>
    \A i \in 1..Len(tarArchive) :
      LET e == tarArchive[i]
          stored == TrimStartMatches(e.path, << DOT, SLASH >>)
      IN  (e.kind = "file" /\ TrimStartSlash(tarPath) = stored
             /\ ~HasPrefix(stored, << SLASH >>))
            => ReturnedOk(tarCall, e.data)

\* The prefix under which the children of the listed path are stored: the
\* path without leading '/', closed by one '/', and empty for the root.
ListedPrefix ==
  LET q == TrimStartSlash(tarPath)
  IN  IF q = << >> \/ EndsWithSlash(q) THEN q ELSE Append(q, SLASH)

\* The stored keys below the listed path.
KeysBelow == { k \in DOMAIN tarEntries.val : HasPrefix(k, ListedPrefix) }

\* The names of the immediate children of the listed path: the first path
\* segment after the prefix of every key that has one.
ChildNames ==
  { FirstComponent(SubSeq(k, Len(ListedPrefix) + 1, Len(k))) : k \in KeysBelow }
    \ { << >> }

\* Some stored key extends the child n further.
Extended(n) ==
  \E k \in DOMAIN tarEntries.val : HasPrefix(k, ListedPrefix \o n \o << SLASH >>)

\* C21: list(p) of the archive-backed filesystem returns exactly the
\* immediate children of p, each once: the first path segment after the
\* normalized prefix of every stored key below it, with '/' appended iff
\* some stored key extends that segment further.
C21_TarList ==
  tarCall.op = "list_dir" =>
    /\ tarCall.res.ok
    /\ { tarCall.res.val[i] : i \in 1..Len(tarCall.res.val) }
         = { IF Extended(n) THEN Append(n, SLASH) ELSE n : n \in ChildNames }
    /\ \A i, j \in 1..Len(tarCall.res.val) :
         tarCall.res.val[i] = tarCall.res.val[j] => i = j

\* What does hold: no name is listed twice, and every child is listed.
TarListHasChildren ==
  tarCall.op = "list_dir" =>
    /\ tarCall.res.ok
    /\ { IF Extended(n) THEN Append(n, SLASH) ELSE n : n \in ChildNames }
         \subseteq { tarCall.res.val[i] : i \in 1..Len(tarCall.res.val) }
    /\ \A i, j \in 1..Len(tarCall.res.val) :
         tarCall.res.val[i] = tarCall.res.val[j] => i = j

\* The listed path names a directory of the archive: the root, or a path
\* some stored key lies below (a directory entry is stored with its '/').
NamesDirectory == ListedPrefix = << >> \/ KeysBelow # {}

\* C22: list(path) returns NotFound when path names no directory of the
\* backing store, and a list of names only when it names one.
C22_ListNotFound ==
  tarCall.op = "list_dir" =>
    IF NamesDirectory THEN tarCall.res.ok ELSE ReturnedErr(tarCall, "NotFound")

\* A listed name without its trailing '/', if it has one.
Stem(name) ==
  IF name # << >> /\ name[Len(name)] = SLASH
    THEN SubSeq(name, 1, Len(name) - 1)
    ELSE name

\* C39: every name list(p) returns, for any p, is non-empty, holds no '/'
\* other than one optional trailing '/', and is returned once; so the
\* listing of a directory stored with an entry of its own holds no empty
\* name.
C39_ListedNames ==
  (tarCall.op = "list_dir" /\ tarCall.res.ok) =>
    LET names == tarCall.res.val
    IN  /\ \A i \in 1..Len(names) :
             /\ Stem(names[i]) # << >>
             /\ \A j \in 1..Len(Stem(names[i])) : Stem(names[i])[j] # SLASH
        /\ \A i, j \in 1..Len(names) : names[i] = names[j] => i = j

(***************************************************************************)
(* DHCP responder: DhcpServer, DhcpOptions, ProtocolHandler                *)
(***************************************************************************)
\* str::split(sep) on a byte string: the parts, empty ones kept.
RECURSIVE SplitOn(_, _)
SplitOn(str, sep) ==
  IF \A i \in 1..Len(str) : str[i] # sep
    THEN << str >>
    ELSE LET k == CHOOSE i \in 1..Len(str) :
                    str[i] = sep /\ \A j \in 1..(i - 1) : str[j] # sep
         IN  << SubSeq(str, 1, k - 1) >> \o SplitOn(SubSeq(str, k + 1, Len(str)), sep)

IsDigit(c) == 48 <= c /\ c <= 57

\* The value of a string of decimal digits.
RECURSIVE DecimalValue(_)
DecimalValue(digits) ==
  IF digits = << >> THEN 0
  ELSE DecimalValue(SubSeq(digits, 1, Len(digits) - 1)) * 10
         + (digits[Len(digits)] - 48)

\* One part of a dotted quad: one to three decimal digits, no leading zero,
\* value at most 255.
IsOctetLiteral(part) ==
  /\ Len(part) \in 1..3
  /\ \A i \in 1..Len(part) : IsDigit(part[i])
  /\ Len(part) > 1 => part[1] # 48
  /\ DecimalValue(part) <= 255

\* str::parse::<Ipv4Addr>()
ParseIp(str) ==
  LET parts == SplitOn(str, DOT)
  IN  IF Len(parts) = 4 /\ \A i \in 1..4 : IsOctetLiteral(parts[i])
        THEN Ok(Ipv4New(DecimalValue(parts[1]), DecimalValue(parts[2]),
                        DecimalValue(parts[3]), DecimalValue(parts[4])))
        ELSE Err("AddrParseError")

\* The decimal digits of a byte.
Decimal(n) ==
  IF n >= 100
    THEN << 48 + (n \div 100), 48 + ((n \div 10) % 10), 48 + (n % 10) >>
  ELSE IF n >= 10 THEN << 48 + (n \div 10), 48 + (n % 10) >>
  ELSE << 48 + n >>

\* Ipv4Addr::to_string, the way an address is written in the configuration.
FormatIp(ip) ==
  Decimal(ip[1]) \o << DOT >> \o Decimal(ip[2]) \o << DOT >>
    \o Decimal(ip[3]) \o << DOT >> \o Decimal(ip[4])

\* DhcpMessage::get_option: a scan over tag, length, value triples that ends
\* at tag 255 or at the end of the block.
RECURSIVE GetOptionFrom(_, _, _)
GetOptionFrom(options, option, i) ==
  IF i >= Len(options) THEN None
  ELSE IF options[i + 1] = 255 THEN None
  ELSE IF i + 1 >= Len(options) THEN None
  ELSE LET len == options[i + 2]
       IN  IF options[i + 1] = option /\ i + 2 + len <= Len(options)
             THEN Some(Slice(options, i + 2, i + 2 + len))
             ELSE GetOptionFrom(options, option, i + 2 + len)

GetOption(msg, option) == GetOptionFrom(msg.options, option, 0)

\* The indices get_option reads from position i on, in the order of the
\* code: options[i] for the end test and the tag test, options[i + 1] for
\* the length where the code guards it, and the range of the slice it
\* returns.
RECURSIVE GetOptionReads(_, _, _)
GetOptionReads(options, option, i) ==
  IF i >= Len(options) THEN {}
  ELSE IF options[i + 1] = 255 THEN { i }
  ELSE IF i + 1 >= Len(options) THEN { i }
  ELSE LET len == options[i + 2]
       IN  IF options[i + 1] = option /\ i + 2 + len <= Len(options)
             THEN { i, i + 1 } \cup ((i + 2)..(i + 2 + len - 1))
             ELSE { i, i + 1 } \cup GetOptionReads(options, option, i + 2 + len)

\* DhcpMessage::get_message_type
GetMessageType(msg) ==
  LET v == GetOption(msg, 53)
  IN  IF v.some THEN Some(IF v.val # << >> THEN v.val[1] ELSE 0) ELSE None

\* DhcpMessage::get_client_arch
GetClientArch(msg) ==
  LET v == GetOption(msg, 93)
  IN  IF v.some
        THEN Some(IF Len(v.val) >= 2 THEN U16FromBe(<< v.val[1], v.val[2] >>) ELSE 0)
        ELSE None

\* The sequential run of IpPool::allocate on the lease table ls and the
\* cursor cur: the result and the table and cursor it leaves behind.
RECURSIVE AllocateScan(_, _, _, _, _, _)
AllocateScan(ls, cur, start, end, mac, cand) ==
  LET c == IF IpGt(cand, end) THEN start ELSE cand
  IN  IF ~(\E m \in DOMAIN ls : ls[m] = c)
        THEN [ip |-> Some(c), leases |-> Insert(ls, mac, c), current |-> NextIp(c)]
        ELSE IF NextIp(c) = cur
               THEN [ip |-> None, leases |-> ls, current |-> cur]
               ELSE AllocateScan(ls, cur, start, end, mac, NextIp(c))

\* allocate finds an address and records nothing.
AllocatePeek(ls, cur, start, end, mac) ==
  IF mac \in DOMAIN ls
    THEN [ip |-> Some(ls[mac]), leases |-> ls, current |-> cur]
    ELSE [AllocateScan(ls, cur, start, end, mac, cur) EXCEPT
            !.leases = ls, !.current = cur]

Allocate(ls, cur, start, end, mac) ==
  IF mac \in DOMAIN ls
    THEN [ip |-> Some(ls[mac]), leases |-> ls, current |-> cur]
    ELSE AllocateScan(ls, cur, start, end, mac, cur)

\* select_protocol without the test of config.efi for architecture 6.
SelectProtocolUnchecked(config, client_arch) ==
  LET default == IF config.efi THEN Some("Efi")
                 ELSE IF config.legacy THEN Some("Legacy")
                 ELSE IF config.dhcp_boot THEN Some("DhcpBoot")
                 ELSE None
  IN  IF ~client_arch.some THEN default
      ELSE IF client_arch.val = 6 THEN Some("Efi")
      ELSE IF client_arch.val \in {0, 1}
        THEN (IF config.legacy THEN Some("Legacy") ELSE None)
      ELSE default

\* ProtocolHandler::select_protocol
SelectProtocol(config, client_arch) ==
  LET default == IF config.efi THEN Some("Efi")
                 ELSE IF config.legacy THEN Some("Legacy")
                 ELSE IF config.dhcp_boot THEN Some("DhcpBoot")
                 ELSE None
  IN  IF ~client_arch.some THEN default
      ELSE IF client_arch.val = 6
        THEN (IF config.efi THEN Some("Efi") ELSE None)
      ELSE IF client_arch.val \in {0, 1}
        THEN (IF config.legacy THEN Some("Legacy") ELSE None)
      ELSE default

\* "bootx64.efi" and "pxelinux.0"
BootX64Efi == << 98, 111, 111, 116, 120, 54, 52, 46, 101, 102, 105 >>

PxeLinux0 == << 112, 120, 101, 108, 105, 110, 117, 120, 46, 48 >>

\* Option::unwrap_or_else
UnwrapOr(opt, default) == IF opt.some THEN opt.val ELSE default

\* get_boot_filename with one override shared by the three protocols.
GetBootFilenameShared(protocol, config) ==
  UnwrapOr(config.boot_filename_efi,
           IF protocol = "Efi" THEN BootX64Efi ELSE PxeLinux0)

\* ProtocolHandler::get_boot_filename
GetBootFilename(protocol, config) ==
  IF protocol = "Efi" THEN UnwrapOr(config.boot_filename_efi, BootX64Efi)
  ELSE IF protocol = "Legacy" THEN UnwrapOr(config.boot_filename_legacy, PxeLinux0)
  ELSE UnwrapOr(config.boot_filename_dhcp_boot, PxeLinux0)

\* A call either returns a value or panics.
Returned(v) == [panicked |-> FALSE, val |-> v]

Panicked == [panicked |-> TRUE, val |-> << >>]

\* The octets of the entries of dns_servers that parse.
RECURSIVE DnsOctets(_)
DnsOctets(servers) ==
  IF servers = << >> THEN << >>
  ELSE (IF ParseIp(Head(servers)).ok THEN Octets(ParseIp(Head(servers)).val)
        ELSE << >>) \o DnsOctets(Tail(servers))

\* DhcpOptions::build_options(config, _client_ip): the message type written
\* is 2; parse_ip(subnet_mask).unwrap() panics on a mask that does not
\* parse.
BuildOptions(config, client_ip) ==
  LET mask    == ParseIp(config.subnet_mask)
      router  == IF config.gateway.some
                   THEN (IF ParseIp(config.gateway.val).ok
                           THEN << 3, 4 >> \o Octets(ParseIp(config.gateway.val).val)
                           ELSE << >>)
                   ELSE << >>
      dns     == IF config.dns_servers # << >>
                   THEN << 6, (Len(config.dns_servers) * 4) % 256 >>
                          \o DnsOctets(config.dns_servers)
                   ELSE << >>
      lease   == << 51, 4 >> \o U32ToBe([hi |-> 0, lo |-> 3600])
      server  == << 54, 4 >> \o (IF ParseIp(config.next_server).ok
                                   THEN Octets(ParseIp(config.next_server).val)
                                   ELSE << >>)
  IN  IF ~mask.ok THEN Panicked
      ELSE Returned(<< 53, 1, 2, 1, 4 >> \o Octets(mask.val) \o router \o dns
                      \o lease \o server \o << 255 >>)

\* DhcpOptions::build_filename_option
BuildFilenameOption(filename) ==
  << 67, Len(filename) % 256 >> \o filename \o << 255 >>

\* Vec::pop
Pop(v) == SubSeq(v, 1, Len(v) - 1)

UNSPECIFIED == << 0, 0, 0, 0 >>

\* What handle_request hands back: it panicked, or returned None or
\* Some((response, should_broadcast)); with it the line it left at (stage),
\* its local `protocol` if it got that far, and the pool as it leaves it.
Handled(stage, protocol, reply, ls, cur) ==
  [stage |-> stage, panicked |-> stage = "panicked", protocol |-> protocol,
   reply |-> reply, leases |-> ls, current |-> cur]

NotSelected == [called |-> FALSE, result |-> None]

Selected(protocol) == [called |-> TRUE, result |-> protocol]

\* A response that starts as a copy of the request: hops, secs, ciaddr and
\* giaddr are the client's.
BuildResponseEcho(request, client_ip, siaddr) ==
  [request EXCEPT !.op = 2, !.yiaddr = client_ip, !.siaddr = siaddr,
                  !.options = << >>]

\* let mut response = DhcpMessage { op: 2, ... options: Vec::new() }
BuildResponse(request, client_ip, siaddr) ==
  [ op      |-> 2,
    htype   |-> request.htype,
    hlen    |-> request.hlen,
    hops    |-> 0,
    xid     |-> request.xid,
    secs    |-> 0,
    flags   |-> request.flags,
    ciaddr  |-> UNSPECIFIED,
    yiaddr  |-> client_ip,
    siaddr  |-> siaddr,
    giaddr  |-> UNSPECIFIED,
    chaddr  |-> request.chaddr,
    options |-> << >> ]

\* DhcpServer::handle_request
HandleRequest(request, ls, cur, start, end, config) ==
  LET msg_type == GetMessageType(request)
  IN  IF ~msg_type.some THEN Handled("no_type", NotSelected, None, ls, cur)
      ELSE IF msg_type.val # 1 /\ msg_type.val # 3
        THEN Handled("other_type", NotSelected, None, ls, cur)
      ELSE
        LET mac         == Slice(request.chaddr, 0, 6)
            alloc       == Allocate(ls, cur, start, end, mac)
            client_arch == GetClientArch(request)
            protocol    == SelectProtocol(config.protocols, client_arch)
            siaddr      == ParseIp(config.next_server)
        IN  IF ~alloc.ip.some
              THEN Handled("exhausted", NotSelected, None, alloc.leases, alloc.current)
            ELSE IF ~protocol.some
              THEN Handled("no_protocol", Selected(protocol), None,
                           alloc.leases, alloc.current)
            ELSE IF ~siaddr.ok
              THEN Handled("bad_next_server", Selected(protocol), None,
                           alloc.leases, alloc.current)
            ELSE
              LET client_ip == alloc.ip.val
                  filename  == GetBootFilename(protocol.val, config.protocols)
                  response_msg_type == IF msg_type.val = 1 THEN 2 ELSE 5
                  options   == BuildOptions(config, client_ip)
                  response  ==
                    [BuildResponse(request, client_ip, siaddr.val) EXCEPT
                       !.options = Pop(options.val) \o BuildFilenameOption(filename)]
                  should_broadcast ==
                    msg_type.val = 1 \/ request.ciaddr = UNSPECIFIED
              IN  IF options.panicked
                    THEN Handled("panicked", Selected(protocol), None,
                                 alloc.leases, alloc.current)
                    ELSE Handled("done", Selected(protocol),
                                 Some([response |-> response,
                                       should_broadcast |-> should_broadcast]),
                                 alloc.leases, alloc.current)

\* SocketAddr::from(([255, 255, 255, 255], 68))
BroadcastAddr == [ip |-> << 255, 255, 255, 255 >>, port |-> 68]

NoAddr == [ip |-> UNSPECIFIED, port |-> 0]

\* A reply sent to the client's own address unless should_broadcast.
DestAddrUnicast(request, should_broadcast) ==
  IF should_broadcast THEN BroadcastAddr ELSE [ip |-> request.ciaddr, port |-> 68]

\* The destination of a reply.
DestAddr(request, should_broadcast) == BroadcastAddr

NoMessage == FromBytes(Zeros(MIN_DHCP_LEN)).val

\* What the loop did with the last datagram.
Replied(data, protocol, response, bytes, dest, sent) ==
  [outcome |-> "replied", data |-> data, protocol |-> protocol,
   response |-> response, bytes |-> bytes, dest |-> dest, sent |-> sent]

NoReply(outcome, data, protocol) ==
  [outcome |-> outcome, data |-> data, protocol |-> protocol,
   response |-> NoMessage, bytes |-> << >>, dest |-> NoAddr, sent |-> FALSE]

NoExchange == NoReply("none", << >>, NotSelected)

(***************************************************************************)
(* Inputs of the responder: configurations and client datagrams            *)
(***************************************************************************)
MaxRequests == 2

\* Two clients: one with no address yet that sets the broadcast flag, one
\* behind a relay that already has an address.
Clients ==
  { [mac |-> << 0, 17, 34, 51, 68, 1 >>, hops |-> 0, flags |-> 32768,
     ciaddr |-> UNSPECIFIED, giaddr |-> UNSPECIFIED],
    [mac |-> << 0, 17, 34, 51, 68, 2 >>, hops |-> 3, flags |-> 0,
     ciaddr |-> << 192, 168, 1, 50 >>, giaddr |-> << 192, 168, 1, 254 >>] }

\* A datagram as a PXE client puts it on the wire: BOOTREQUEST, the
\* hardware address padded to 16 bytes, empty sname and file, the magic
\* cookie, the options.
ClientDatagram(h, xid, options) ==
  << 1, 1, 6, h.hops >> \o << 57, 3, 243, xid >> \o << 0, 4 >> \o U16ToBe(h.flags)
    \o h.ciaddr \o UNSPECIFIED \o UNSPECIFIED \o h.giaddr
    \o h.mac \o Zeros(10) \o Zeros(192) \o MagicCookie \o options

\* Option 53 with one value byte; option 93 with a big-endian u16.
MessageTypeOption(t) == << 53, 1, t >>

ClientArchOption(a) == << 93, 2 >> \o U16ToBe(a)

ClientArchs == { << >>, ClientArchOption(0), ClientArchOption(1),
                 ClientArchOption(6), ClientArchOption(7) }

\* Discover and Request datagrams, then an Inform, a datagram without
\* option 53, one whose option 53 is empty, and one too short to decode.
RequestDatagrams ==
  { ClientDatagram(h, t, MessageTypeOption(t) \o arch \o << 255 >>) :
      h \in Clients, t \in {1, 3}, arch \in ClientArchs }

OtherRequestDatagrams ==
  LET h == CHOOSE x \in Clients : x.hops = 0
  IN  { ClientDatagram(h, 8, MessageTypeOption(8) \o << 255 >>),
        ClientDatagram(h, 9, ClientArchOption(6) \o << 255 >>),
        ClientDatagram(h, 10, << 53, 0, 255 >>),
        Zeros(MIN_DHCP_LEN - 1) }

DhcpDatagrams == RequestDatagrams \cup OtherRequestDatagrams

ProtocolConfigs ==
  { [efi |-> e, legacy |-> l, dhcp_boot |-> d, boot_filename_efi |-> None,
     boot_filename_legacy |-> None, boot_filename_dhcp_boot |-> None] :
      e \in BOOLEAN, l \in BOOLEAN, d \in BOOLEAN }

AllProtocols == CHOOSE p \in ProtocolConfigs : p.efi /\ p.legacy /\ p.dhcp_boot

\* "custom_efi.efi" shortened to "c.efi"
CustomProtocols ==
  [AllProtocols EXCEPT !.boot_filename_efi = Some(<< 99, 46, 101, 102, 105 >>)]

\* An IP literal that does not parse: "256.0.0.1".
BadIpLiteral == << 50, 53, 54, 46, 48, 46, 48, 46, 49 >>

\* Config::default, dhcp part.
DefaultDhcpConfig ==
  [ protocols     |-> AllProtocols,
    ip_pool_start |-> FormatIp(<< 192, 168, 1, 100 >>),
    ip_pool_end   |-> FormatIp(<< 192, 168, 1, 200 >>),
    subnet_mask   |-> FormatIp(<< 255, 255, 255, 0 >>),
    gateway       |-> Some(FormatIp(<< 192, 168, 1, 1 >>)),
    dns_servers   |-> << FormatIp(<< 8, 8, 8, 8 >>) >>,
    next_server   |-> FormatIp(<< 192, 168, 1, 1 >>) ]

\* Configurations DhcpServer::new accepts (both pool literals parse): a
\* pool of one address; every combination of protocols on a pool of two; a
\* custom boot filename; masks and next_server values, gateways and DNS
\* lists that do or do not parse.
SmallPool(n) ==
  [DefaultDhcpConfig EXCEPT !.ip_pool_end = FormatIp(<< 192, 168, 1, 99 + n >>)]

DhcpConfigs ==
  { SmallPool(1), [SmallPool(2) EXCEPT !.protocols = CustomProtocols] }
    \cup { [SmallPool(2) EXCEPT !.protocols = p] : p \in ProtocolConfigs }
    \cup { [SmallPool(2) EXCEPT !.subnet_mask = m, !.next_server = s] :
             m \in { DefaultDhcpConfig.subnet_mask, BadIpLiteral },
             s \in { DefaultDhcpConfig.next_server, BadIpLiteral } }
    \cup { [SmallPool(2) EXCEPT !.gateway = g, !.dns_servers = d] :
             g \in { None, DefaultDhcpConfig.gateway, Some(BadIpLiteral) },
             d \in { << >>, DefaultDhcpConfig.dns_servers,
                     << FormatIp(<< 8, 8, 8, 8 >>), BadIpLiteral >> } }

(***************************************************************************)
(* DhcpServer::new and the receive loop of DhcpServer::start               *)
(***************************************************************************)
\* DhcpServer::new(config): both pool literals are parsed, IpPool::new
\* starts the cursor at the first address with no lease.
InitResp ==
  /\ respConfig \in DhcpConfigs
  /\ poolStart = ParseIp(respConfig.ip_pool_start).val
  /\ poolEnd = ParseIp(respConfig.ip_pool_end).val
  /\ current = poolStart
  /\ leases = << >>
  /\ leasesLock = NoThread /\ currentLock = NoThread
  /\ apc = << >> /\ amac = << >> /\ candidate = << >> /\ allocLog = << >>
  /\ respLoop = "running"
  /\ respLast = NoExchange
  /\ respCount = 0

\* One turn of the loop on a received datagram: from_bytes, handle_request,
\* to_bytes, send_to, which succeeds or fails (send_ok).
DhcpRecv(data) ==
  /\ respLoop = "running"
  /\ respCount < MaxRequests
  /\ respCount' = respCount + 1
  /\ \E request \in { FromBytes(data) } :
         IF ~request.ok
           THEN /\ respLast' = NoReply("undecodable", data, NotSelected)
                /\ UNCHANGED <<respLoop, leases, current>>
           ELSE
             \E h \in { HandleRequest(request.val, leases, current, poolStart,
                                      poolEnd, respConfig) } :
                 /\ leases' = h.leases
                 /\ current' = h.current
                 /\ IF h.panicked
                      THEN /\ respLoop' = "panicked"
                           /\ respLast' = NoReply("panicked", data, h.protocol)
                    ELSE IF ~h.reply.some
                      THEN /\ respLoop' = respLoop
                           /\ respLast' = NoReply(h.stage, data, h.protocol)
                    ELSE /\ respLoop' = respLoop
                         /\ \E response_bytes \in { ToBytes(h.reply.val.response) } :
                            \E send_ok \in BOOLEAN :
                              respLast' =
                                Replied(data, h.protocol, h.reply.val.response,
                                        response_bytes,
                                        DestAddr(request.val,
                                                 h.reply.val.should_broadcast),
                                        send_ok)
  /\ UNCHANGED <<poolStart, poolEnd, leasesLock, currentLock, apc, amac,
                 candidate, allocLog, respConfig>>
  /\ UNCHANGED <<codecVars, fsVars, tftpVars, tarVars, bootVars, callVars, lockVars>>

\* recv_from returns an error: it is logged and the loop goes on.
DhcpRecvError ==
  /\ respLoop = "running"
  /\ respCount < MaxRequests
  /\ respCount' = respCount + 1
  /\ respLast' = NoReply("recv_error", << >>, NotSelected)
  /\ UNCHANGED <<poolVars, respConfig, respLoop>>
  /\ UNCHANGED <<codecVars, fsVars, tftpVars, tarVars, bootVars, callVars, lockVars>>

DhcpStep ==
  \/ \E data \in DhcpDatagrams : DhcpRecv(data)
  \/ DhcpRecvError

(***************************************************************************)
(* Properties of the DHCP responder                                        *)
(***************************************************************************)
\* The last datagram was decoded and handled as a Discover or a Request.
LastHandled ==
  respLast.outcome \in {"replied", "exhausted", "no_protocol", "bad_next_server",
                        "panicked"}

\* The last datagram as the responder decoded it, and its option 93.
LastRequest == FromBytes(respLast.data).val

LastArch == GetOptionFrom(LastRequest.options, 93, 0)

LastArchIs(a) == LastArch.some /\ LastArch.val = U16ToBe(a)

\* The first enabled protocol in the order EFI, Legacy, DhcpBoot.
AnyEnabled(p) == p.efi \/ p.legacy \/ p.dhcp_boot

FirstEnabled(p) ==
  IF p.efi THEN "Efi" ELSE IF p.legacy THEN "Legacy" ELSE "DhcpBoot"

SelectedIs(protocol) ==
  respLast.protocol.result.some /\ respLast.protocol.result.val = protocol

\* The client names a protocol that is disabled.
NamesDisabled ==
  \/ LastArchIs(6) /\ ~respConfig.protocols.efi
  \/ (LastArchIs(0) \/ LastArchIs(1)) /\ ~respConfig.protocols.legacy

\* C12: when the client architecture names a disabled protocol (arch 6 with
\* EFI disabled, arch 0 or 1 with Legacy disabled), select_protocol returns
\* the first enabled of EFI, Legacy, DhcpBoot, and None only when no
\* protocol is enabled.
C12_FallThrough ==
  (respLast.protocol.called /\ NamesDisabled) =>
    IF AnyEnabled(respConfig.protocols)
      THEN SelectedIs(FirstEnabled(respConfig.protocols))
      ELSE ~respLast.protocol.result.some

IsEnabled(p, protocol) ==
  \/ protocol = "Efi" /\ p.efi
  \/ protocol = "Legacy" /\ p.legacy
  \/ protocol = "DhcpBoot" /\ p.dhcp_boot

\* Option 93 is absent or names none of the architectures 0, 1, 6.
NoNamedArch == ~LastArchIs(0) /\ ~LastArchIs(1) /\ ~LastArchIs(6)

\* C13: select_protocol returns EFI for arch 6 with EFI enabled, Legacy for
\* arch 0 or 1 with Legacy enabled, the first enabled of EFI, Legacy,
\* DhcpBoot for an absent or any other arch; what it returns is enabled;
\* with no protocol enabled it returns None and no reply is sent.
C13_Selection ==
  LET p == respConfig.protocols
  IN  /\ respLast.protocol.called =>
           /\ (LastArchIs(6) /\ p.efi) => SelectedIs("Efi")
           /\ ((LastArchIs(0) \/ LastArchIs(1)) /\ p.legacy) => SelectedIs("Legacy")
           /\ (NoNamedArch /\ AnyEnabled(p)) => SelectedIs(FirstEnabled(p))
           /\ respLast.protocol.result.some =>
                IsEnabled(p, respLast.protocol.result.val)
           /\ ~AnyEnabled(p) => ~respLast.protocol.result.some
      /\ respLast.outcome = "replied" =>
           /\ AnyEnabled(p)
           /\ respLast.protocol.result.some

\* A Request with arch 7 is answered with the Legacy protocol, EFI being
\* disabled, after a Discover with arch 6 was dropped.
C13_Witness ==
  /\ respCount = 2
  /\ respLast.outcome = "replied"
  /\ LastArchIs(7)
  /\ ~respConfig.protocols.efi
  /\ SelectedIs("Legacy")

\* The first value byte of option 53 of a message, 0 if there is none.
TypeOf(msg) ==
  LET v == GetOptionFrom(msg.options, 53, 0)
  IN  IF v.some /\ v.val # << >> THEN v.val[1] ELSE 0

\* C14: a reply is sent only to a message whose option 53 is 1 (Discover)
\* or 3 (Request); the reply to a Discover carries option 53 = 2 (Offer),
\* the reply to a Request option 53 = 5 (ACK).
C14_ReplyType ==
  respLast.outcome = "replied" =>
    /\ TypeOf(LastRequest) \in {1, 3}
    /\ TypeOf(LastRequest) = 1 => TypeOf(respLast.response) = 2
    /\ TypeOf(LastRequest) = 3 => TypeOf(respLast.response) = 5

\* What does hold: only a Discover or a Request is answered, and every
\* reply carries option 53 = 2.
ReplyTypeIsOffer ==
  respLast.outcome = "replied" =>
    /\ TypeOf(LastRequest) \in {1, 3}
    /\ TypeOf(respLast.response) = 2

ReplyOnWire == FromBytes(respLast.bytes).val

\* The configured next_server as an address.
NextServer == ParseIp(respConfig.next_server).val

\* C16: every reply copies htype, hlen, flags, xid and the 16 bytes of
\* chaddr from the request and has op = 2, hops = 0, ciaddr = 0.0.0.0,
\* giaddr = 0.0.0.0, siaddr = next_server and yiaddr = the address leased to
\* the MAC in chaddr[0..6].
C16_ReplyFields ==
  respLast.outcome = "replied" =>
    LET mac == SubSeq(LastRequest.chaddr, 1, 6)
    IN  /\ ReplyOnWire.htype = LastRequest.htype
        /\ ReplyOnWire.hlen = LastRequest.hlen
        /\ ReplyOnWire.flags = LastRequest.flags
        /\ ReplyOnWire.xid = LastRequest.xid
        /\ Len(ReplyOnWire.chaddr) = 16
        /\ ReplyOnWire.chaddr = LastRequest.chaddr
        /\ ReplyOnWire.op = 2
        /\ ReplyOnWire.hops = 0
        /\ ReplyOnWire.ciaddr = << 0, 0, 0, 0 >>
        /\ ReplyOnWire.giaddr = << 0, 0, 0, 0 >>
        /\ ParseIp(respConfig.next_server).ok
        /\ ReplyOnWire.siaddr = NextServer
        /\ mac \in DOMAIN leases
        /\ ReplyOnWire.yiaddr = leases[mac]
        /\ respLast.response = [ReplyOnWire EXCEPT !.options = respLast.response.options]

\* The second client, relayed (hops 3, giaddr set) and with an address of
\* its own, is answered after the first and is offered the second address
\* of the pool.
C16_Witness ==
  /\ respCount = 2
  /\ respLast.outcome = "replied"
  /\ LastRequest.hops = 3
  /\ LastRequest.giaddr = << 192, 168, 1, 254 >>
  /\ LastRequest.ciaddr = << 192, 168, 1, 50 >>
  /\ ReplyOnWire.yiaddr = << 192, 168, 1, 101 >>
  /\ Cardinality(DOMAIN leases) = 2

\* An option block read as tag, length, value triples from offset i on:
\* the tags and values met before the first end tag, and the offset of that
\* end tag (-1 if the block runs out first).
RECURSIVE WalkOptions(_, _, _, _)
WalkOptions(o, i, tags, vals) ==
  IF i >= Len(o) THEN [tags |-> tags, vals |-> vals, end |-> -1]
  ELSE IF o[i + 1] = 255 THEN [tags |-> tags, vals |-> vals, end |-> i]
  ELSE IF i + 1 >= Len(o) \/ i + 2 + o[i + 2] > Len(o)
    THEN [tags |-> Append(tags, o[i + 1]), vals |-> vals, end |-> -1]
  ELSE WalkOptions(o, i + 2 + o[i + 2], Append(tags, o[i + 1]),
                   Append(vals, SubSeq(o, i + 3, i + 2 + o[i + 2])))

GatewayParses ==
  respConfig.gateway.some /\ ParseIp(respConfig.gateway.val).ok

\* The tags of a reply in the order of the option list.
ExpectedTags ==
  << 53, 1 >> \o (IF GatewayParses THEN << 3 >> ELSE << >>)
    \o (IF respConfig.dns_servers # << >> THEN << 6 >> ELSE << >>)
    \o << 51, 54, 67 >>

\* C17: the option block of every reply is, in this order, option 53,
\* option 1 (subnet mask), option 3 (only if a gateway is configured and
\* parses), option 6 (only if the DNS list is not empty), option 51 with
\* value 3600, option 54 with next_server, option 67 with the boot
\* filename, then one end tag 255 as the last byte, none before option 67.
C17_OptionOrder ==
  respLast.outcome = "replied" =>
    LET o    == respLast.response.options
        walk == WalkOptions(o, 0, << >>, << >>)
        n    == Len(walk.tags)
    IN  /\ walk.tags = ExpectedTags
        /\ walk.end = Len(o) - 1
        /\ Len(walk.vals) = n
        /\ walk.vals[2] = ParseIp(respConfig.subnet_mask).val
        /\ walk.vals[n - 2] = << 0, 0, 14, 16 >>
        /\ walk.vals[n - 1] = NextServer
        /\ walk.vals[n] = GetBootFilename(respLast.protocol.result.val,
                                          respConfig.protocols)

AllDnsParse ==
  \A i \in 1..Len(respConfig.dns_servers) : ParseIp(respConfig.dns_servers[i]).ok

\* What does hold: the same, for a DNS list whose entries all parse.
OptionOrderWhenDnsParses == AllDnsParse => C17_OptionOrder

\* C38: the option block of every reply is a well-formed TLV stream: read
\* as tag, length, value from the first byte, with every length byte taken
\* as the number of value bytes that follow, the block yields the options
\* that were written, the DNS option with the octets of its servers and
\* option 67 with the whole boot filename, and ends on its last byte, the
\* end tag.
C38_WellFormedTlv ==
  respLast.outcome = "replied" =>
    LET o    == respLast.response.options
        walk == WalkOptions(o, 0, << >>, << >>)
        n    == Len(walk.tags)
    IN  /\ walk.end = Len(o) - 1
        /\ walk.tags = ExpectedTags
        /\ Len(walk.vals) = n
        /\ respConfig.dns_servers # << >> =>
             walk.vals[n - 3] = DnsOctets(respConfig.dns_servers)
        /\ walk.vals[n] = GetBootFilename(respLast.protocol.result.val,
                                          respConfig.protocols)

\* The hardware address the last datagram was handled for.
LastMac == Slice(LastRequest.chaddr, 0, 6)

\* C37: the lease is recorded before the protocol is selected. A Discover
\* or Request that is dropped because no protocol is selected, or because
\* next_server does not parse, leaves its MAC -> IP entry in the lease table
\* and, when the entry is new, the cursor just past the leased address; a
\* datagram that is undecodable, has no message type or has another type
\* leaves the lease table and the cursor as they were.
C37_LeaseBeforeProtocol ==
  [][ respCount' # respCount =>
        /\ respLast'.outcome \in {"no_protocol", "bad_next_server"} =>
             LET mac == Slice(FromBytes(respLast'.data).val.chaddr, 0, 6)
             IN  /\ mac \in DOMAIN leases'
                 /\ IF mac \in DOMAIN leases
                      THEN UNCHANGED <<leases, current>>
                      ELSE /\ leases' = Insert(leases, mac, leases'[mac])
                           /\ current' = NextIp(leases'[mac])
                           /\ current' # current
        /\ respLast'.outcome \in {"undecodable", "no_type", "other_type"} =>
             UNCHANGED <<leases, current>>
    ]_vars

\* The first datagram was a Discover or Request dropped for want of a
\* protocol, and its lease is in the table.
C37_Witness ==
  /\ respCount = 1
  /\ respLast.outcome = "no_protocol"
  /\ LastMac \in DOMAIN leases
  /\ current = NextIp(leases[LastMac])

\* C18: after any sequence of received datagrams and any per-datagram
\* failure (undecodable, unsupported type, pool exhausted, no protocol, send
\* error, receive error) the receive loop is still running: no datagram
\* makes it panic or ends the service task.
C18_LoopRunning == respLoop = "running"

\* What does hold: the loop keeps running under a subnet mask that parses,
\* and each of the failures named leaves it running.
LoopRunsWhenMaskParses ==
  /\ ParseIp(respConfig.subnet_mask).ok => respLoop = "running"
  /\ respLast.outcome \in {"undecodable", "no_type", "other_type", "exhausted",
                           "no_protocol", "bad_next_server", "recv_error"}
       => respLoop = "running"
  /\ (respLast.outcome = "replied" /\ ~respLast.sent) => respLoop = "running"

(***************************************************************************)
(* Process startup: main, Server::start                                    *)
(***************************************************************************)
Services == {"dhcp", "tftp", "http"}

\* filesystem::create_filesystem on a root path, given what is found there.
CreateFilesystem(root) ==
  IF ~root.exists THEN Err("NotFound")
  ELSE IF root.is_dir THEN Ok("DirectoryFileSystem")
  ELSE IF root.extension = "gz" THEN Ok("TarFileSystem")
  ELSE Err("InvalidPath")

\* DhcpServer::new: only the two pool literals are parsed.
DhcpServerNew(config) ==
  IF ~ParseIp(config.ip_pool_start).ok THEN Err("AddrParseError")
  ELSE IF ~ParseIp(config.ip_pool_end).ok THEN Err("AddrParseError")
  ELSE Ok(config)

\* What a root path can name: a directory, a .tar.gz archive, nothing, a
\* file of another kind.
Roots ==
  { [exists |-> TRUE, is_dir |-> TRUE, extension |-> ""],
    [exists |-> TRUE, is_dir |-> FALSE, extension |-> "gz"],
    [exists |-> FALSE, is_dir |-> FALSE, extension |-> ""],
    [exists |-> TRUE, is_dir |-> FALSE, extension |-> "img"] }

GoodRoot == [exists |-> TRUE, is_dir |-> TRUE, extension |-> ""]

\* The DHCP configurations startup is given: each of the four IP literals
\* parses or does not.
BootConfigs ==
  { [DefaultDhcpConfig EXCEPT !.ip_pool_start = a, !.ip_pool_end = b,
                              !.subnet_mask = m, !.next_server = s] :
      a \in { DefaultDhcpConfig.ip_pool_start, BadIpLiteral },
      b \in { DefaultDhcpConfig.ip_pool_end, BadIpLiteral },
      m \in { DefaultDhcpConfig.subnet_mask, BadIpLiteral },
      s \in { DefaultDhcpConfig.next_server, BadIpLiteral } }

\* The exit of the process: main returned Err (code 1) or Ok (code 0).
Exit(code, cause) == Some([code |-> code, cause |-> cause])

\* main has the configuration and calls Server::start.
InitBoot ==
  /\ bootEnv \in [ dhcp : BootConfigs, tftp_root : Roots,
                   http_root : { r \in Roots : r.exists },
                   bind_ok : [Services -> BOOLEAN] ]
  /\ bootPc = "create_tftp_fs"
  /\ bootTasks = [sv \in Services |-> "none"]
  /\ bootExit = None

\* A `?` in Server::start: the error reaches main, which returns it.
BootFail ==
  /\ bootPc' = "exited"
  /\ bootExit' = Exit(1, "startup_error")
  /\ UNCHANGED <<bootEnv, bootTasks>>

BootGoto(pc) ==
  /\ bootPc' = pc
  /\ UNCHANGED <<bootEnv, bootTasks, bootExit>>

\* let tftp_fs = filesystem::create_filesystem(&self.config.tftp.root)?;
BootCreateTftpFs ==
  /\ bootPc = "create_tftp_fs"
  /\ IF CreateFilesystem(bootEnv.tftp_root).ok
       THEN BootGoto("create_http_fs") ELSE BootFail
  /\ UNCHANGED <<poolVars, codecVars, fsVars, tftpVars, tarVars, respVars, callVars, lockVars>>

\* let http_fs = filesystem::create_filesystem(&self.config.http.root)?;
BootCreateHttpFs ==
  /\ bootPc = "create_http_fs"
  /\ IF CreateFilesystem(bootEnv.http_root).ok
       THEN BootGoto("dhcp_new") ELSE BootFail
  /\ UNCHANGED <<poolVars, codecVars, fsVars, tftpVars, tarVars, respVars, callVars, lockVars>>

\* let dhcp_server = DhcpServer::new(self.config.dhcp.clone())?;
BootDhcpNew ==
  /\ bootPc = "dhcp_new"
  /\ IF DhcpServerNew(bootEnv.dhcp).ok THEN BootGoto("spawn") ELSE BootFail
  /\ UNCHANGED <<poolVars, codecVars, fsVars, tftpVars, tarVars, respVars, callVars, lockVars>>

\* The three tokio::spawn calls; Server::start then waits in select!.
BootSpawn ==
  /\ bootPc = "spawn"
  /\ bootPc' = "select"
  /\ bootTasks' = [sv \in Services |-> "starting"]
  /\ UNCHANGED <<bootEnv, bootExit>>
  /\ UNCHANGED <<poolVars, codecVars, fsVars, tftpVars, tarVars, respVars, callVars, lockVars>>

\* A spawned task runs X.start(): the socket is bound and the service
\* loops, or the bind fails, the error is logged and the task ends.
BootTaskStart(sv) ==
  /\ bootPc = "select"
  /\ bootTasks[sv] = "starting"
  /\ bootTasks' = [bootTasks EXCEPT ![sv] = IF bootEnv.bind_ok[sv]
                                              THEN "serving" ELSE "ended"]
  /\ UNCHANGED <<bootEnv, bootPc, bootExit>>
  /\ UNCHANGED <<poolVars, codecVars, fsVars, tftpVars, tarVars, respVars, callVars, lockVars>>

\* The DHCP loop answers a Discover: build_options unwraps the parsed
\* subnet mask, and the task ends in a panic if it does not parse; with a
\* next_server that does not parse no reply is built.
BootDhcpDiscover ==
  /\ bootPc = "select"
  /\ bootTasks["dhcp"] = "serving"
  /\ bootTasks' = [bootTasks EXCEPT !["dhcp"] =
                     IF ParseIp(bootEnv.dhcp.next_server).ok
                          /\ BuildOptions(bootEnv.dhcp, UNSPECIFIED).panicked
                       THEN "ended" ELSE "serving"]
  /\ UNCHANGED <<bootEnv, bootPc, bootExit>>
  /\ UNCHANGED <<poolVars, codecVars, fsVars, tftpVars, tarVars, respVars, callVars, lockVars>>

\* select!: the handle of a task that has ended completes, Server::start
\* returns Ok(()) and so does main.
BootSelectTask(sv) ==
  /\ bootPc = "select"
  /\ bootTasks[sv] = "ended"
  /\ bootPc' = "exited"
  /\ bootExit' = Exit(0, "task_stopped")
  /\ UNCHANGED <<bootEnv, bootTasks>>
  /\ UNCHANGED <<poolVars, codecVars, fsVars, tftpVars, tarVars, respVars, callVars, lockVars>>

\* select!: signal::ctrl_c() completes, Server::start returns Ok(()).
BootCtrlC ==
  /\ bootPc = "select"
  /\ bootPc' = "exited"
  /\ bootExit' = Exit(0, "signal")
  /\ UNCHANGED <<bootEnv, bootTasks>>
  /\ UNCHANGED <<poolVars, codecVars, fsVars, tftpVars, tarVars, respVars, callVars, lockVars>>

(***************************************************************************)
(* Properties of startup                                                   *)
(***************************************************************************)
\* A service socket that cannot be bound, an IP literal of the DHCP
\* configuration that does not parse, or a root path that is no directory
\* and no archive.
StartupFailure ==
  \/ \E sv \in Services : ~bootEnv.bind_ok[sv]
  \/ ~ParseIp(bootEnv.dhcp.ip_pool_start).ok
  \/ ~ParseIp(bootEnv.dhcp.ip_pool_end).ok
  \/ ~ParseIp(bootEnv.dhcp.subnet_mask).ok
  \/ ~ParseIp(bootEnv.dhcp.next_server).ok
  \/ bootEnv.tftp_root # GoodRoot /\ bootEnv.tftp_root.extension # "gz"
  \/ bootEnv.http_root # GoodRoot /\ bootEnv.http_root.extension # "gz"

\* C19: a startup failure (a socket that fails to bind, a bad IP literal in
\* pool start or end, subnet mask or next_server, a bad root path) makes the
\* process end with a non-zero exit code, and exit code 0 comes only from a
\* clean shutdown on the termination signal.
C19_ExitCodes ==
  bootExit.some =>
    /\ StartupFailure => bootExit.val.code # 0
    /\ bootExit.val.code = 0 => bootExit.val.cause = "signal"

\* What does hold: a bad pool literal or a bad root path ends the process
\* with exit code 1 before any task is spawned.
EarlyFailuresExitNonZero ==
  (\/ ~ParseIp(bootEnv.dhcp.ip_pool_start).ok
   \/ ~ParseIp(bootEnv.dhcp.ip_pool_end).ok
   \/ ~CreateFilesystem(bootEnv.tftp_root).ok
   \/ ~CreateFilesystem(bootEnv.http_root).ok)
    => /\ bootPc \notin {"spawn", "select"}
       /\ bootExit.some => bootExit.val.code = 1

(***************************************************************************)
(* TFTP codec: TftpPacket                                                  *)
(***************************************************************************)
BLOCK_SIZE == 512

\* u16::MAX, the largest block number.
U16_MAX == 65535

CHANNEL_CAPACITY == 10

\* TftpPacket::parse
Parse(data) ==
  IF Len(data) < 2 THEN Err("Packet too short")
  ELSE LET opcode == U16FromBe(<< data[1], data[2] >>)
       IN  IF opcode \in 1..5
             THEN Ok([opcode |-> opcode, data |-> Slice(data, 2, Len(data))])
             ELSE Err("Unknown opcode")

\* TftpPacket::build_ack
BuildAck(block_num) == U16ToBe(4) \o U16ToBe(block_num)

\* TftpPacket::build_data
BuildData(block_num, data) == U16ToBe(3) \o U16ToBe(block_num) \o data

\* build_error without the terminating 0.
BuildErrorOpen(code, message) == U16ToBe(5) \o U16ToBe(code) \o message

\* TftpPacket::build_error
BuildError(code, message) == U16ToBe(5) \o U16ToBe(code) \o message \o << 0 >>

\* A continuation byte of UTF-8.
IsCont(b) == b \in 128..191

\* String::from_utf8(bytes).is_ok(): the bytes are well-formed UTF-8 (no
\* overlong form, no surrogate, nothing above U+10FFFF).
RECURSIVE IsUtf8(_)
IsUtf8(b) ==
  IF b = << >> THEN TRUE
  ELSE LET n == Len(b)
           rest(k) == SubSeq(b, k + 1, n)
       IN  IF b[1] <= 127 THEN IsUtf8(rest(1))
           ELSE IF b[1] \in 194..223
             THEN n >= 2 /\ IsCont(b[2]) /\ IsUtf8(rest(2))
           ELSE IF b[1] \in 224..239
             THEN /\ n >= 3
                  /\ b[2] \in (IF b[1] = 224 THEN 160..191
                                ELSE IF b[1] = 237 THEN 128..159 ELSE 128..191)
                  /\ IsCont(b[3])
                  /\ IsUtf8(rest(3))
           ELSE IF b[1] \in 240..244
             THEN /\ n >= 4
                  /\ b[2] \in (IF b[1] = 240 THEN 144..191
                                ELSE IF b[1] = 244 THEN 128..143 ELSE 128..191)
                  /\ IsCont(b[3]) /\ IsCont(b[4])
                  /\ IsUtf8(rest(4))
           ELSE FALSE

\* extract_filename without the conversion to a String.
ExtractFilenameBytes(packet) ==
  IF packet.opcode \in {1, 2} /\ \E i \in 1..Len(packet.data) : packet.data[i] = 0
    THEN LET null_pos == CHOOSE i \in 1..Len(packet.data) :
                           packet.data[i] = 0
                             /\ \A j \in 1..(i - 1) : packet.data[j] # 0
         IN  Some(SubSeq(packet.data, 1, null_pos - 1))
    ELSE None

\* TftpPacket::extract_filename: the bytes before the first NUL of a
\* request, when there is a NUL and String::from_utf8 accepts them.
ExtractFilename(packet) ==
  IF packet.opcode \in {1, 2} /\ \E i \in 1..Len(packet.data) : packet.data[i] = 0
    THEN LET null_pos == CHOOSE i \in 1..Len(packet.data) :
                           packet.data[i] = 0
                             /\ \A j \in 1..(i - 1) : packet.data[j] # 0
             name == SubSeq(packet.data, 1, null_pos - 1)
         IN  IF IsUtf8(name) THEN Some(name) ELSE None
    ELSE None

\* "File not found", "Error reading file", "Write not supported"
MsgFileNotFound ==
  << 70, 105, 108, 101, 32, 110, 111, 116, 32, 102, 111, 117, 110, 100 >>

MsgErrorReading ==
  << 69, 114, 114, 111, 114, 32, 114, 101, 97, 100, 105, 110, 103, 32, 102,
     105, 108, 101 >>

MsgWriteNotSupported ==
  << 87, 114, 105, 116, 101, 32, 110, 111, 116, 32, 115, 117, 112, 112, 111,
     114, 116, 101, 100 >>

(***************************************************************************)
(* TFTP read server                                                        *)
(***************************************************************************)
\* Bounds: transfers started, datagrams acted on (requests and routed
\* ACKs), the highest block number a client acknowledges; the last two again
\* for a single client fetching one file.
MaxTransfers == 2

MaxDatagrams == 3

MaxAckBlock == 2

MaxSoloDatagrams == 4

MaxSoloAckBlock == 3

Peers == { "A", "B" }

\* The server's filesystem: a DirectoryFileSystem on /t.
TftpRoot == Canonicalize(<< <<116>> >>).val

\* "octet"
ModeOctet == << 111, 99, 116, 101, 116 >>

\* File names a client asks for: /h (13 B), k (512 B), d (a directory),
\* x (absent).
RrqNames == { << SLASH, 104 >>, <<107>>, <<100>>, <<120>> }

\* Files of every shape of length: /h (13 B), z (0 B), k (512 B),
\* b (1024 B), m (1025 B).
SoloNames == { << SLASH, 104 >>, <<122>>, <<107>>, <<98>>, <<109>> }

Rrq(name) == U16ToBe(1) \o name \o << 0 >> \o ModeOctet \o << 0 >>

RrqDatagrams ==
  { Rrq(n) : n \in RrqNames } \cup { U16ToBe(1) \o << 104 >> }  \* no NUL

SoloDatagrams == { Rrq(n) : n \in SoloNames }

\* ACKs for blocks 1..n, and an ACK cut short.
Acks(n) == { BuildAck(b) : b \in 1..n } \cup { << 0, 4, 0 >> }

AckDatagrams == Acks(MaxAckBlock)

SoloAckDatagrams == Acks(MaxSoloAckBlock)

WrqDatagrams == { U16ToBe(2) \o << 104, 0 >> \o ModeOctet \o << 0 >> }

\* An ERROR packet, an unknown opcode, a one-byte packet.
OtherDatagrams == { BuildError(0, << >>), << 0, 9 >>, << 0 >> }

\* The total length of a sequence of sequences.
RECURSIVE SumLen(_)
SumLen(ss) == IF ss = << >> THEN 0 ELSE Len(Head(ss)) + SumLen(Tail(ss))

NoTask ==
  [pc |-> "unspawned", peer |-> "", filename |-> << >>, file |-> << >>,
   block_num |-> 0, offset |-> 0, chunk_size |-> 0, end |-> ""]

InitTftp ==
  /\ transfers = << >>
  /\ chans = << >>
  /\ tasks = << >>
  /\ tlog = << >>
  /\ mainPending = None
  /\ mainOut = << >>
 

\* The datagrams the main loop has acted on and that are still on record:
\* requests answered or started, and ACKs routed (forwarded, queued or
\* consumed by a task).
Acted ==
  Len(chans) + Len(mainOut) + (IF mainPending.some THEN 1 ELSE 0)
    + SumLen([c \in 1..Len(chans) |-> chans[c].q])
    + SumLen([c \in 1..Len(tlog) |-> SelectSeq(tlog[c], LAMBDA e : e.ev = "recv")])

\* HashMap::remove
Remove(map, k) == [x \in DOMAIN map \ {k} |-> map[x]]

\* Whether a Sender of channel c is alive: the one stored in
\* active_transfers, or the clone the main loop holds while forwarding.
SenderAlive(c) ==
  \/ \E p \in DOMAIN transfers : transfers[p] = c
  \/ mainPending.some /\ mainPending.val.chan = c

\* ReadRequest: a fresh channel replaces whatever was registered for the
\* peer; the transfer task is spawned only if the file name can be extracted,
\* otherwise the receiver is dropped at once.
Register(peer, data) ==
  LET filename == ExtractFilename(Parse(data).val)
      c == Len(chans) + 1
  IN  /\ transfers' = Insert(transfers, peer, c)
      /\ chans' = Append(chans, [q |-> << >>, rx |-> filename.some])
      /\ tasks' = Append(tasks,
           IF filename.some
             THEN [NoTask EXCEPT !.pc = "start", !.peer = peer,
                                 !.filename = filename.val]
             ELSE NoTask)
      /\ tlog' = Append(tlog, << >>)

MainRecvRRQ(peer, data) ==
  /\ ~mainPending.some
  /\ Parse(data).ok /\ Parse(data).val.opcode = 1
  /\ Register(peer, data)
  /\ UNCHANGED <<mainPending, mainOut>>
  /\ UNCHANGED <<poolVars, codecVars, fsVars, tarVars, respVars, bootVars, callVars, lockVars>>

\* Ack: look the peer up under the lock, clone its Sender, release the lock.
MainRecvAck(peer, data) ==
  /\ ~mainPending.some
  /\ Parse(data).ok /\ Parse(data).val.opcode = 4
  /\ IF peer \in DOMAIN transfers
       THEN mainPending' = Some([peer |-> peer, chan |-> transfers[peer],
                                    data |-> data])
       ELSE UNCHANGED mainPending
  /\ UNCHANGED <<transfers, chans, tasks, tlog, mainOut>>
  /\ UNCHANGED <<poolVars, codecVars, fsVars, tarVars, respVars, bootVars, callVars, lockVars>>

\* tx.send(data.to_vec()).await: completes when the inbox has room, fails
\* when the receiver is gone (the peer's entry is then removed).
MainForward ==
  /\ mainPending.some
  /\ LET m == mainPending.val
     IN  IF ~chans[m.chan].rx
           THEN /\ transfers' = Remove(transfers, m.peer)
                /\ UNCHANGED chans
           ELSE /\ Len(chans[m.chan].q) < CHANNEL_CAPACITY
                /\ chans' = [chans EXCEPT ![m.chan].q = Append(@, m.data)]
                /\ UNCHANGED transfers
  /\ mainPending' = None
  /\ UNCHANGED <<tasks, tlog, mainOut>>
  /\ UNCHANGED <<poolVars, codecVars, fsVars, tarVars, respVars, bootVars, callVars, lockVars>>

\* WriteRequest: answered with ERROR(2, "Write not supported").
MainRecvWRQ(peer, data) ==
  /\ ~mainPending.some
  /\ Parse(data).ok /\ Parse(data).val.opcode = 2
  /\ mainOut' = Append(mainOut, [to |-> peer, pkt |-> BuildError(2, MsgWriteNotSupported)])
  /\ UNCHANGED <<transfers, chans, tasks, tlog, mainPending>>
  /\ UNCHANGED <<poolVars, codecVars, fsVars, tarVars, respVars, bootVars, callVars, lockVars>>

\* Any other opcode, or a packet that does not parse: logged and dropped.
MainRecvOther(peer, data) ==
  /\ ~mainPending.some
  /\ IF Parse(data).ok THEN Parse(data).val.opcode \in {3, 5} ELSE TRUE
  /\ UNCHANGED tftpVars
  /\ UNCHANGED <<poolVars, codecVars, fsVars, tarVars, respVars, bootVars, callVars, lockVars>>

(***************************************************************************)
(* The transfer task: handle_read_with_channel                             *)
(***************************************************************************)
\* file_data: the bytes read at the start of the transfer. The disk does not
\* change, so the task's copy is named by the file's canonical path.
FileData(t) == Disk[tasks[t].file].bytes

\* A file of 65536 full blocks and one byte, /t/g: too long to be written
\* out byte by byte, it is known by its length only.
LongFile == << <<116>>, <<103>> >>

LongFileLen == (U16_MAX + 1) * BLOCK_SIZE + 1

\* file_data.len()
FileLen(t) ==
  IF tasks[t].file = LongFile THEN LongFileLen ELSE Len(FileData(t))

Min(a, b) == IF a < b THEN a ELSE b

\* socket.send_to(pkt, peer) by task t
Sent(t, pkt) == Append(tlog[t], [ev |-> "send", to |-> tasks[t].peer, pkt |-> pkt])

\* The task function returns: its receiver is dropped.
TaskReturn(t, why, log) ==
  /\ tasks' = [tasks EXCEPT ![t].pc = "done", ![t].end = why]
  /\ chans' = [chans EXCEPT ![t].rx = FALSE]
  /\ tlog' = [tlog EXCEPT ![t] = log]

\* let filename = filename.trim_start_matches('/');
\* if !filesystem.exists(filename).await { send ERROR(1); return; }
TaskStart(t) ==
  /\ t <= Len(tasks)
  /\ tasks[t].pc = "start"
  /\ LET filename == TrimStartSlash(tasks[t].filename)
     IN  IF ~Exists(TftpRoot, filename)
           THEN TaskReturn(t, "not_found", Sent(t, BuildError(1, MsgFileNotFound)))
           ELSE /\ tasks' = [tasks EXCEPT ![t].pc = "read", ![t].filename = filename]
                /\ UNCHANGED <<chans, tlog>>
  /\ UNCHANGED <<transfers, mainPending, mainOut>>
  /\ UNCHANGED <<poolVars, codecVars, fsVars, tarVars, respVars, bootVars, callVars, lockVars>>

\* let file_data = match filesystem.read_file(filename).await { ... };
\* let mut block_num = 1u16; let mut offset = 0;
TaskRead(t) ==
  /\ t <= Len(tasks)
  /\ tasks[t].pc = "read"
  /\ IF ReadFile(TftpRoot, tasks[t].filename).ok
       THEN /\ tasks' = [tasks EXCEPT ![t].pc = "send",
                           ![t].file = ResolvePath(TftpRoot, tasks[t].filename).val,
                           ![t].block_num = 1, ![t].offset = 0]
            /\ UNCHANGED <<chans, tlog>>
       ELSE TaskReturn(t, "read_error", Sent(t, BuildError(0, MsgErrorReading)))
  /\ UNCHANGED <<transfers, mainPending, mainOut>>
  /\ UNCHANGED <<poolVars, codecVars, fsVars, tarVars, respVars, bootVars, callVars, lockVars>>

\* The whole rest of the file is taken as one chunk.
ChunkSizeRest(remaining) == remaining

\* let chunk_size = remaining.min(BLOCK_SIZE);
ChunkSize(remaining) == Min(remaining, BLOCK_SIZE)

\* Top of the loop: the next chunk is cut and sent as DATA(block_num). The
\* log names the chunk by its place in the file: the packet is
\* build_data(block, file_data[off .. off + len]).
TaskSendData(t) ==
  /\ t <= Len(tasks)
  /\ tasks[t].pc = "send"
  /\ LET remaining == FileLen(t) - tasks[t].offset
         chunk_size == ChunkSize(remaining)
     IN  /\ tasks' = [tasks EXCEPT ![t].pc = "wait", ![t].chunk_size = chunk_size]
         /\ tlog' = [tlog EXCEPT ![t] =
                       Append(@, [ev |-> "data", to |-> tasks[t].peer,
                                  block |-> tasks[t].block_num,
                                  off |-> tasks[t].offset, len |-> chunk_size])]
  /\ UNCHANGED <<transfers, chans, mainPending, mainOut>>
  /\ UNCHANGED <<poolVars, codecVars, fsVars, tarVars, respVars, bootVars, callVars, lockVars>>

\* socket.send_to fails: the task returns (nothing is sent, nothing removed).
TaskSendDataFail(t) ==
  /\ t <= Len(tasks)
  /\ tasks[t].pc = "send"
  /\ TaskReturn(t, "send_error", tlog[t])
  /\ UNCHANGED <<transfers, mainPending, mainOut>>
  /\ UNCHANGED <<poolVars, codecVars, fsVars, tarVars, respVars, bootVars, callVars, lockVars>>

AckValidAnyBlock(ack_data, block_num) ==
  /\ Len(ack_data) >= 4
  /\ U16FromBe(<< ack_data[1], ack_data[2] >>) = 4

\* ack_data.len() >= 4 && ack_opcode == Ack && ack_block == block_num
AckValid(ack_data, block_num) ==
  /\ Len(ack_data) >= 4
  /\ U16FromBe(<< ack_data[1], ack_data[2] >>) = 4
  /\ U16FromBe(<< ack_data[3], ack_data[4] >>) = block_num

LastBlockOffByOne(chunk_size) == chunk_size <= BLOCK_SIZE

\* if chunk_size < BLOCK_SIZE: this was the last block
LastBlock(chunk_size) == chunk_size < BLOCK_SIZE

\* wrapping_add(1) alone: 0 follows 65535.
NextBlockZero(block_num) == (block_num + 1) % 65536

\* The block number is left as it is.
NextBlockSame(block_num) == block_num

\* block_num.wrapping_add(1), and 1 instead of 0
NextBlock(block_num) ==
  LET b == (block_num + 1) % 65536 IN IF b = 0 THEN 1 ELSE b

\* ack_rx.recv() yields a datagram: a matching ACK advances the transfer (or
\* completes it after a short block); anything else ends it.
TaskRecvAck(t) ==
  /\ t <= Len(tasks)
  /\ tasks[t].pc = "wait"
  /\ chans[t].q # << >>
  /\ LET ack_data == Head(chans[t].q)
     IN  /\ chans' = [chans EXCEPT ![t].q = Tail(@)]
         /\ tlog' = [tlog EXCEPT ![t] = Append(@, [ev |-> "recv", data |-> ack_data])]
         /\ IF AckValid(ack_data, tasks[t].block_num)
              THEN IF LastBlock(tasks[t].chunk_size)
                     THEN tasks' = [tasks EXCEPT ![t].pc = "remove",
                                      ![t].end = "complete",
                                      ![t].offset = @ + tasks[t].chunk_size]
                     ELSE tasks' = [tasks EXCEPT ![t].pc = "send",
                                      ![t].offset = @ + tasks[t].chunk_size,
                                      ![t].block_num = NextBlock(@)]
              ELSE tasks' = [tasks EXCEPT ![t].pc = "remove", ![t].end = "bad_ack"]
  /\ UNCHANGED <<transfers, mainPending, mainOut>>
  /\ UNCHANGED <<poolVars, codecVars, fsVars, tarVars, respVars, bootVars, callVars, lockVars>>

\* ack_rx.recv() yields None: every Sender is gone and the inbox is empty.
TaskRecvClosed(t) ==
  /\ t <= Len(tasks)
  /\ tasks[t].pc = "wait"
  /\ chans[t].q = << >>
  /\ ~SenderAlive(t)
  /\ tasks' = [tasks EXCEPT ![t].pc = "remove", ![t].end = "closed"]
  /\ UNCHANGED <<transfers, chans, tlog, mainPending, mainOut>>
  /\ UNCHANGED <<poolVars, codecVars, fsVars, tarVars, respVars, bootVars, callVars, lockVars>>

\* ack_rx.recv() awaited with no timer around it: with nothing in the inbox
\* the task stays where it is.
TaskWaitsOn(t) ==
  /\ t <= Len(tasks)
  /\ tasks[t].pc = "wait"
  /\ chans[t].q = << >>
  /\ UNCHANGED vars

\* The 5-second timeout elapses with nothing in the inbox.
TaskTimeout(t) ==
  /\ t <= Len(tasks)
  /\ tasks[t].pc = "wait"
  /\ chans[t].q = << >>
  /\ SenderAlive(t)
  /\ tasks' = [tasks EXCEPT ![t].pc = "remove", ![t].end = "timeout"]
  /\ UNCHANGED <<transfers, chans, tlog, mainPending, mainOut>>
  /\ UNCHANGED <<poolVars, codecVars, fsVars, tarVars, respVars, bootVars, callVars, lockVars>>

\* active_transfers.lock().await.remove(&peer); return;
TaskRemove(t) ==
  /\ t <= Len(tasks)
  /\ tasks[t].pc = "remove"
  /\ transfers' = Remove(transfers, tasks[t].peer)
  /\ TaskReturn(t, tasks[t].end, tlog[t])
  /\ UNCHANGED <<mainPending, mainOut>>
  /\ UNCHANGED <<poolVars, codecVars, fsVars, tarVars, respVars, bootVars, callVars, lockVars>>

\* Task t exists once the t-th channel has been created.
TaskIds == 1..MaxTransfers

\* The receive loop takes the next datagram while the bounds allow.
MayReceive == ~mainPending.some /\ Acted < MaxDatagrams

TftpStep ==
  \/ \E peer \in Peers, data \in RrqDatagrams :
       MayReceive /\ Len(chans) < MaxTransfers /\ MainRecvRRQ(peer, data)
  \/ \E peer \in Peers, data \in AckDatagrams :
       MayReceive /\ MainRecvAck(peer, data)
  \/ MainForward
  \/ \E peer \in Peers, data \in WrqDatagrams :
       MayReceive /\ MainRecvWRQ(peer, data)
  \/ \E peer \in Peers, data \in OtherDatagrams : MainRecvOther(peer, data)
  \/ \E t \in TaskIds : TaskStart(t)
  \/ \E t \in TaskIds : TaskRead(t)
  \/ \E t \in TaskIds : TaskSendData(t)
  \/ \E t \in TaskIds : TaskSendDataFail(t)
  \/ \E t \in TaskIds : TaskRecvAck(t)
  \/ \E t \in TaskIds : TaskRecvClosed(t)
  \/ \E t \in TaskIds : TaskTimeout(t)
  \/ \E t \in TaskIds : TaskRemove(t)

\* The datagrams of the runs that are followed to their end: RRQ for k (one
\* full block and an empty one), for the directory d and without a file
\* name, the ACKs of blocks 1 and 2 and an ACK cut short.
FairRrqDatagrams == { Rrq(<< 107 >>), Rrq(<< 100 >>), U16ToBe(1) \o << 104 >> }

NextTftpFair ==
  \/ \E peer \in Peers, data \in FairRrqDatagrams :
       MayReceive /\ Len(chans) < MaxTransfers /\ MainRecvRRQ(peer, data)
  \/ \E peer \in Peers, data \in AckDatagrams :
       MayReceive /\ MainRecvAck(peer, data)
  \/ MainForward
  \/ \E t \in TaskIds : TaskStart(t)
  \/ \E t \in TaskIds : TaskRead(t)
  \/ \E t \in TaskIds : TaskSendData(t)
  \/ \E t \in TaskIds : TaskSendDataFail(t)
  \/ \E t \in TaskIds : TaskRecvAck(t)
  \/ \E t \in TaskIds : TaskRecvClosed(t)
  \/ \E t \in TaskIds : TaskTimeout(t)
  \/ \E t \in TaskIds : TaskRemove(t)

\* What task t does, from one await to the next.
TaskStep(t) ==
  \/ TaskStart(t)
  \/ TaskRead(t)
  \/ TaskSendData(t)
  \/ TaskSendDataFail(t)
  \/ TaskRecvAck(t)
  \/ TaskRecvClosed(t)
  \/ TaskTimeout(t)
  \/ TaskRemove(t)

\* The runtime polls every spawned task that can go on, and the timer of a
\* waiting task fires when no ACK is delivered. Nothing is assumed of the
\* peers or of the receive loop.
FairTasks == \A t \in TaskIds : WF_vars(TaskStep(t))

\* Task t has been spawned.
Running(t) == t <= Len(tasks) /\ tasks[t].pc # "unspawned"

\* Task t has returned.
TaskEnded(t) == t <= Len(tasks) /\ tasks[t].pc = "done"

(***************************************************************************)
(* The Mutex around active_transfers, one step per await                   *)
(*                                                                         *)
(* tokio::sync::Mutex hands the lock out in the order of the lock() calls. *)
(* The receive loop and the transfer tasks are taken from one await to the *)
(* next: a step ends where the code awaits the lock, the socket, the inbox *)
(* or the timer.                                                           *)
(***************************************************************************)
\* The receive loop, among the callers of lock(); task t is caller t.
MainLoop == 0

\* active_transfers.lock(): the caller joins the queue.
CallLock(queue, p) == Append(queue, p)

\* .await of lock() has returned for p: it holds the MutexGuard.
Holds(p) == lockQueue # << >> /\ Head(lockQueue) = p

\* p has called lock() and has not released it since.
InQueue(p) == \E i \in 1..Len(lockQueue) : lockQueue[i] = p

\* The temporary guard of `lock().await.insert(..)` or `.remove(..)` is
\* dropped at the end of the statement.
DropGuard(queue) == Tail(queue)

\* The guard bound in the ACK arm lives to the end of the arm, across
\* tx.send(..).await.
LookupGuardKept(queue) == queue

\* let tx_opt = { let transfers = ..lock().await; transfers.get(&peer).cloned() };
\* the guard is dropped at the end of the block, before tx.send.
LookupGuard(queue) == Tail(queue)

\* recv_from returns an RRQ or an ACK: the loop calls lock() and awaits it.
MainRecvLock(peer, data) ==
  /\ mainAt = "recv"
  /\ Parse(data).ok /\ Parse(data).val.opcode \in {1, 4}
  /\ mainAt' = IF Parse(data).val.opcode = 1 THEN "insert" ELSE "get"
  /\ mainHand' = Some([peer |-> peer, data |-> data])
  /\ lockQueue' = CallLock(lockQueue, MainLoop)
  /\ UNCHANGED tftpVars
  /\ UNCHANGED <<poolVars, codecVars, fsVars, tarVars, respVars, bootVars, callVars>>

\* ReadRequest, with the lock: insert, drop the guard, spawn.
MainInsert ==
  /\ mainAt = "insert" /\ Holds(MainLoop)
  /\ Register(mainHand.val.peer, mainHand.val.data)
  /\ lockQueue' = DropGuard(lockQueue)
  /\ mainAt' = "recv" /\ mainHand' = None
  /\ UNCHANGED <<mainPending, mainOut>>
  /\ UNCHANGED <<poolVars, codecVars, fsVars, tarVars, respVars, bootVars, callVars>>

\* Ack, with the lock: get(&peer).cloned(), drop the guard.
MainGet ==
  /\ mainAt = "get" /\ Holds(MainLoop)
  /\ LET m == mainHand.val
     IN  IF m.peer \in DOMAIN transfers
           THEN /\ mainPending' = Some([peer |-> m.peer, chan |-> transfers[m.peer],
                                        data |-> m.data])
                /\ mainAt' = "send"
                /\ UNCHANGED mainHand
           ELSE /\ mainAt' = "recv" /\ mainHand' = None
                /\ UNCHANGED mainPending
  /\ lockQueue' = LookupGuard(lockQueue)
  /\ UNCHANGED <<transfers, chans, tasks, tlog, mainOut>>
  /\ UNCHANGED <<poolVars, codecVars, fsVars, tarVars, respVars, bootVars, callVars>>

\* tx.send(data.to_vec()).await returns: Ok once the inbox has room, Err
\* when the receiver is gone; after Err the loop calls lock() again.
MainSend ==
  /\ mainAt = "send"
  /\ LET m == mainPending.val
     IN  IF ~chans[m.chan].rx
           THEN /\ mainAt' = "remove"
                /\ lockQueue' = CallLock(lockQueue, MainLoop)
                /\ UNCHANGED <<chans, mainPending, mainHand>>
           ELSE /\ Len(chans[m.chan].q) < CHANNEL_CAPACITY
                /\ chans' = [chans EXCEPT ![m.chan].q = Append(@, m.data)]
                /\ mainAt' = "recv" /\ mainHand' = None /\ mainPending' = None
                /\ UNCHANGED lockQueue
  /\ UNCHANGED <<transfers, tasks, tlog, mainOut>>
  /\ UNCHANGED <<poolVars, codecVars, fsVars, tarVars, respVars, bootVars, callVars>>

\* active_transfers_clone.lock().await.remove(&peer), with the lock.
MainRemove ==
  /\ mainAt = "remove" /\ Holds(MainLoop)
  /\ transfers' = Remove(transfers, mainHand.val.peer)
  /\ lockQueue' = DropGuard(lockQueue)
  /\ mainAt' = "recv" /\ mainHand' = None /\ mainPending' = None
  /\ UNCHANGED <<chans, tasks, tlog, mainOut>>
  /\ UNCHANGED <<poolVars, codecVars, fsVars, tarVars, respVars, bootVars, callVars>>

\* A task that is about to leave calls active_transfers.lock().
TaskLock(t) ==
  /\ t <= Len(tasks)
  /\ tasks[t].pc = "remove" /\ ~InQueue(t)
  /\ lockQueue' = CallLock(lockQueue, t)
  /\ UNCHANGED <<mainAt, mainHand>>
  /\ UNCHANGED tftpVars
  /\ UNCHANGED <<poolVars, codecVars, fsVars, tarVars, respVars, bootVars, callVars>>

\* .remove(&peer) with the lock; the guard is dropped and the task returns.
TaskRemoveLocked(t) ==
  /\ t <= Len(tasks)
  /\ tasks[t].pc = "remove" /\ Holds(t)
  /\ transfers' = Remove(transfers, tasks[t].peer)
  /\ TaskReturn(t, tasks[t].end, tlog[t])
  /\ lockQueue' = DropGuard(lockQueue)
  /\ UNCHANGED <<mainAt, mainHand>>
  /\ UNCHANGED <<mainPending, mainOut>>
  /\ UNCHANGED <<poolVars, codecVars, fsVars, tarVars, respVars, bootVars, callVars>>

\* Bound on the datagrams the receive loop takes in the runs with the lock.
MaxLockDatagrams == 3

\* The datagrams of those runs: RRQ for /h, an RRQ without a file name,
\* ACK(1) and an ACK cut short.
LockDatagrams ==
  { Rrq(<< SLASH, 104 >>), U16ToBe(1) \o << 104 >>, BuildAck(1), << 0, 4, 0 >> }

\* What task t does between two awaits.
TaskStepLock(t) ==
  \/ TaskStart(t)
  \/ TaskRead(t)
  \/ TaskSendData(t)
  \/ TaskRecvAck(t)
  \/ TaskRecvClosed(t)
  \/ TaskTimeout(t)
  \/ TaskLock(t)
  \/ TaskRemoveLocked(t)

NextTftpLock ==
  \/ \E peer \in Peers, data \in LockDatagrams :
       /\ Acted < MaxLockDatagrams
       /\ Parse(data).val.opcode = 1 => Len(chans) < MaxTransfers
       /\ MainRecvLock(peer, data)
  \/ MainInsert
  \/ MainGet
  \/ MainSend
  \/ MainRemove
  \/ \E t \in TaskIds : TaskStepLock(t)

\* The runtime polls every task that can go on: the receive loop past
\* recv_from, and each transfer task (its timer fires when no ACK comes).
FairTftpLock ==
  /\ WF_vars(MainInsert \/ MainGet \/ MainSend \/ MainRemove)
  /\ \A t \in TaskIds : WF_vars(TaskStepLock(t))

\* The lock is held only between lock().await and the end of the statement
\* that took it: by the receive loop while it inserts, looks up or removes,
\* by a task while it removes.
HeldOnlyInside ==
  lockQueue # << >> =>
    IF Head(lockQueue) = MainLoop
      THEN mainAt \in {"insert", "get", "remove"}
      ELSE /\ Head(lockQueue) <= Len(tasks)
           /\ tasks[Head(lockQueue)].pc = "remove"

\* C35: the transfers lock is never held while its holder awaits an inbox
\* send, a socket operation or a timer, and whoever has called lock() (the
\* receive loop or a transfer task) eventually holds the lock, releases it,
\* and the receive loop returns to recv_from.
C35_LockLive ==
  /\ []HeldOnlyInside
  /\ \A p \in {MainLoop} \cup TaskIds : InQueue(p) ~> (Holds(p) /\ <>~InQueue(p))
  /\ (mainAt # "recv") ~> (mainAt = "recv")

\* C40: every transfer task eventually returns, whatever the peers send:
\* with a finite file, fair scheduling of the tasks and the ACK timeout
\* firing when no ACK is delivered, no task waits for an ACK for ever and
\* none sends DATA for ever.
C40_TasksTerminate ==
  \A t \in TaskIds : Running(t) ~> TaskEnded(t)

\* A task has returned on the timeout after its second DATA packet: the
\* peer acknowledged block 1 and then fell silent.
C40_Witness ==
  \E t \in 1..Len(tasks) :
    /\ tasks[t].pc = "done" /\ tasks[t].end = "timeout"
    /\ \E i \in 1..Len(tlog[t]) : tlog[t][i].ev = "data" /\ tlog[t][i].block = 2

\* A task waits for the lock while the receive loop holds it.
C35_Witness ==
  /\ Len(lockQueue) >= 2
  /\ Head(lockQueue) = MainLoop
  /\ \E t \in 1..Len(tasks) : InQueue(t) /\ tasks[t].pc = "remove"

\* C36: every entry of transfers belongs to a spawned transfer task, which
\* holds the receive end of the registered inbox: an RRQ whose file name
\* cannot be extracted registers nothing.
C36_EntryHasTask ==
  \A p \in DOMAIN transfers : tasks[transfers[p]].pc # "unspawned"

(***************************************************************************)
(* Properties of the transfer task                                         *)
(***************************************************************************)
\* The positions of the DATA packets in the record of task t, in order.
DataAt(t) == { i \in 1..Len(tlog[t]) : tlog[t][i].ev = "data" }

DataEvents(t) == SelectSeq(tlog[t], LAMBDA e : e.ev = "data")

\* d is a well-formed ACK packet for block n.
IsAckFor(d, n) ==
  /\ Len(d) >= 4
  /\ d[1] = 0 /\ d[2] = 4
  /\ d[3] * 256 + d[4] = n

Spawned == { t \in 1..Len(tasks) : tasks[t].pc # "unspawned" }

\* C7: within one transfer, a DATA packet other than the first is sent only
\* directly after the task has taken from its inbox a valid ACK for the
\* DATA packet sent just before it, whose block number is one less; so the
\* DATA packets sent never outnumber the valid ACKs received by more than
\* one, whatever the main loop and the other tasks do in between.
C7_Lockstep ==
  \A t \in Spawned :
    /\ \A i \in DataAt(t) :
         i > 1 =>
           /\ i >= 3
           /\ tlog[t][i - 1].ev = "recv"
           /\ tlog[t][i - 2].ev = "data"
           /\ tlog[t][i - 2].block = tlog[t][i].block - 1
           /\ IsAckFor(tlog[t][i - 1].data, tlog[t][i - 2].block)
    /\ Cardinality(DataAt(t))
         <= 1 + Cardinality({ i \in 2..Len(tlog[t]) :
                                /\ tlog[t][i].ev = "recv"
                                /\ tlog[t][i - 1].ev = "data"
                                /\ IsAckFor(tlog[t][i].data, tlog[t][i - 1].block) })

\* Two transfers run side by side: one has sent its second DATA block while
\* the other still waits for its first ACK.
C7_Witness ==
  \E t, u \in Spawned :
    /\ Cardinality(DataAt(t)) = 2 /\ tasks[t].pc = "wait"
    /\ Cardinality(DataAt(u)) = 1 /\ tasks[u].pc = "wait"

Ceil(a, b) == (a + b - 1) \div b

\* The number of DATA packets a complete transfer of L bytes takes.
PacketCount(L) == Ceil(L, 512) + (IF L % 512 = 0 THEN 1 ELSE 0)

\* C8: the j-th DATA packet of a transfer has block number j and carries the
\* file's bytes from 512 (j - 1) on, 512 of them unless the file ends
\* earlier; a transfer of L bytes that ran to completion, every DATA packet
\* having been answered by its ACK, sent exactly
\* ceil(L/512) + (1 if L mod 512 = 0) DATA packets, of which all but the last
\* carry 512 bytes and the last carries L mod 512 bytes.
C8_PacketCount ==
  \A t \in Spawned :
    LET data == DataEvents(t)
        n == Len(data)
        L == Len(FileData(t))
    IN  n > 0 =>
          /\ \A j \in 1..n :
               /\ data[j].block = j
               /\ data[j].off = 512 * (j - 1)
               /\ data[j].len = Min(512, L - data[j].off)
          /\ tasks[t].end = "complete" =>
               /\ n = PacketCount(L)
               /\ \A j \in 1..(n - 1) : data[j].len = 512
               /\ data[n].len = L % 512

\* The 1025-byte file ran to completion in packets of 512, 512 and 1 bytes.
C8_Witness ==
  \E t \in Spawned :
    /\ tasks[t].end = "complete"
    /\ Len(FileData(t)) = 1025
    /\ [j \in 1..Len(DataEvents(t)) |-> DataEvents(t)[j].len] = << 512, 512, 1 >>

\* The payload of the DATA packet the record entry e of task t names:
\* file_data[off .. off + len].
PayloadOf(t, e) == SubSeq(FileData(t), e.off + 1, e.off + e.len)

\* The payloads of the DATA packets of task t, one after the other.
RECURSIVE Payloads(_, _)
Payloads(t, data) ==
  IF data = << >> THEN << >>
  ELSE PayloadOf(t, Head(data)) \o Payloads(t, Tail(data))

\* The bytes acknowledged so far: the lengths of the DATA packets that were
\* followed by their own ACK.
RECURSIVE AckedBytes(_, _)
AckedBytes(log, i) ==
  IF i > Len(log) THEN 0
  ELSE (IF i > 1 /\ log[i].ev = "recv" /\ log[i - 1].ev = "data"
             /\ IsAckFor(log[i].data, log[i - 1].block)
          THEN log[i - 1].len ELSE 0)
       + AckedBytes(log, i + 1)

\* C32: the k-th DATA packet of a transfer carries exactly the file bytes
\* [512(k-1), min(512k, L)); the offset is a multiple of 512 when a block
\* is sent, never exceeds L and advances only on a matching ACK; when the
\* transfer completes, the DATA payloads in send order make up the file.
C32_DataBytes ==
  \A t \in Spawned :
    LET data == DataEvents(t)
        L == Len(FileData(t))
    IN  Len(data) > 0 =>
          /\ \A k \in 1..Len(data) :
               /\ data[k].off = 512 * (k - 1)
               /\ data[k].off % 512 = 0
               /\ data[k].off + data[k].len = Min(512 * k, L)
               /\ PayloadOf(t, data[k])
                    = SubSeq(FileData(t), 512 * (k - 1) + 1, Min(512 * k, L))
          /\ tasks[t].offset <= L
          /\ tasks[t].offset = AckedBytes(tlog[t], 1)
          /\ tasks[t].end = "complete" => Payloads(t, data) = FileData(t)

\* The 1024-byte file has been sent whole: two full blocks and an empty one.
C32_Witness ==
  \E t \in Spawned :
    /\ tasks[t].end = "complete"
    /\ Len(FileData(t)) = 1024
    /\ Len(DataEvents(t)) = 3
    /\ tasks[t].offset = 1024
    /\ Payloads(t, DataEvents(t)) = FileData(t)

\* The file the request names cannot be resolved under the served root.
Absent(name) == ~ResolvePath(TftpRoot, TrimStartSlash(name)).ok

\* C9: the task of a request for an absent file sends nothing but one
\* ERROR(1, "File not found") to the requesting peer: its record is empty
\* until it has run and is that one packet once it has, at which point it
\* has terminated; it never sends DATA.
C9_NotFound ==
  \A t \in Spawned :
    Absent(tasks[t].filename) =>
      \/ tasks[t].pc = "start" /\ tlog[t] = << >>
      \/ /\ tasks[t].pc = "done"
         /\ tlog[t] = << [ev |-> "send", to |-> tasks[t].peer,
                          pkt |-> << 0, 5, 0, 1 >> \o MsgFileNotFound \o << 0 >>] >>

\* A request for the absent file x has been answered and its task is over,
\* while the same peer's ACKs keep arriving.
C9_Witness ==
  \E t \in Spawned :
    /\ Absent(tasks[t].filename)
    /\ tasks[t].pc = "done"
    /\ Len(tlog[t]) = 1
    /\ mainPending.some /\ mainPending.val.peer = tasks[t].peer

\* Task t is over: its function has returned.
Over(t) == tasks[t].pc = "done"

\* Task u is the transfer of the latest RRQ of its peer.
Latest(u) == \A v \in Spawned : tasks[v].peer = tasks[u].peer => v <= u

\* The inbox of task t is registered under its peer.
Registered(t) ==
  tasks[t].peer \in DOMAIN transfers /\ transfers[tasks[t].peer] = t

\* C27: when an RRQ arrives from a peer that already has a transfer, the
\* new inbox replaces the old one, and from then on it stays registered
\* under that peer until the new transfer itself terminates: the prior
\* task, terminating, never removes the new entry.
C27_ReplacementStays ==
  \A u \in Spawned :
    ((\E t \in Spawned : t < u /\ tasks[t].peer = tasks[u].peer)
       /\ Latest(u) /\ ~Over(u))
      => Registered(u)

\* C28: whenever a transfer task terminates, for whatever reason, the entry
\* it was registered under is no longer in transfers: no entry outlives its
\* task.
C28_NoEntryOutlives ==
  \A t \in Spawned : Over(t) => ~Registered(t)

\* What does hold: a task that ended by completion, a bad ACK, a closed
\* inbox or a timeout has left no entry of its own behind.
RemovedAfterWait ==
  \A t \in Spawned :
    (Over(t) /\ tasks[t].end \in {"complete", "bad_ack", "closed", "timeout"})
      => ~Registered(t)

(***************************************************************************)
(* A transfer of the long file, taken up shortly before block 65535        *)
(***************************************************************************)
\* Bound on the datagrams acted on in the long transfer; the three the
\* record shows at the start (the RRQ and two ACKs) are counted.
MaxLongDatagrams == 6

\* The ACKs peer A sends around the wrap of the block number, and one cut
\* short.
LongAckDatagrams ==
  { BuildAck(b) : b \in { U16_MAX - 1, U16_MAX, 1, 2 } } \cup { << 0, 4, 0 >> }

\* Peer A's transfer of /t/g has had DATA(65533) acknowledged and is about
\* to send DATA(65534). Of what the task has sent and received so far the
\* record keeps the first exchange and the latest one.
InitTftpLong ==
  /\ transfers = Insert(<< >>, "A", 1)
  /\ chans = << [q |-> << >>, rx |-> TRUE] >>
  /\ tasks = << [NoTask EXCEPT !.pc = "send", !.peer = "A", !.filename = << 103 >>,
                                !.file = LongFile, !.block_num = U16_MAX - 1,
                                !.offset = (U16_MAX - 2) * BLOCK_SIZE,
                                !.chunk_size = BLOCK_SIZE] >>
  /\ tlog = << << [ev |-> "data", to |-> "A", block |-> 1, off |-> 0,
                  len |-> BLOCK_SIZE],
                 [ev |-> "recv", data |-> BuildAck(1)],
                 [ev |-> "data", to |-> "A", block |-> U16_MAX - 2,
                  off |-> (U16_MAX - 3) * BLOCK_SIZE, len |-> BLOCK_SIZE],
                 [ev |-> "recv", data |-> BuildAck(U16_MAX - 2)] >> >>
  /\ mainPending = None
  /\ mainOut = << >>

\* A goes on acknowledging, or asks for /h anew, while the tasks run.
NextTftpLong ==
  \/ \E data \in LongAckDatagrams :
       Acted < MaxLongDatagrams /\ MainRecvAck("A", data)
  \/ Acted < MaxLongDatagrams /\ Len(chans) < MaxTransfers
       /\ MainRecvRRQ("A", Rrq(<< SLASH, 104 >>))
  \/ MainForward
  \/ \E t \in TaskIds : TaskStart(t)
  \/ \E t \in TaskIds : TaskRead(t)
  \/ \E t \in TaskIds : TaskSendData(t)
  \/ \E t \in TaskIds : TaskSendDataFail(t)
  \/ \E t \in TaskIds : TaskRecvAck(t)
  \/ \E t \in TaskIds : TaskRecvClosed(t)
  \/ \E t \in TaskIds : TaskTimeout(t)
  \/ \E t \in TaskIds : TaskRemove(t)

\* The task has stopped sending: it is at its remove or has returned.
Stopped(t) == tasks[t].pc \in {"remove", "done"}

\* An ACK that is not the one for the DATA sent just before it, a closed
\* inbox and a timeout are the last thing in the record of the task, which
\* has stopped: no DATA follows.
EndsWithoutData(t) ==
  /\ \A i \in 1..Len(tlog[t]) :
       tlog[t][i].ev = "recv" =>
         /\ i > 1 /\ tlog[t][i - 1].ev = "data"
         /\ ~IsAckFor(tlog[t][i].data, tlog[t][i - 1].block) =>
              (i = Len(tlog[t]) /\ Stopped(t) /\ tasks[t].end = "bad_ack")
  /\ tasks[t].end \in {"closed", "timeout"} =>
       (Stopped(t) /\ tlog[t][Len(tlog[t])].ev = "data")

\* C29: a transfer never retransmits: each DATA block number is sent at
\* most once per transfer, and the first ACK for another block than the
\* current one (a duplicate of an earlier one included), an ACK shorter
\* than 4 bytes, a closed inbox or a timeout ends the transfer with no
\* further DATA sent.
C29_NoRetransmit ==
  \A t \in Spawned :
    /\ \A i, j \in DataAt(t) : tlog[t][i].block = tlog[t][j].block => i = j
    /\ EndsWithoutData(t)

\* C29 as the code has it: no part of the file is sent twice, and a block
\* number is sent again only for the part of the file 65535 blocks further
\* on, the block number resuming at 1 after 65535.
C29_NoResend ==
  \A t \in Spawned :
    /\ \A i, j \in DataAt(t) :
         /\ tlog[t][i].off = tlog[t][j].off => i = j
         /\ tlog[t][i].block = tlog[t][j].block =>
              (tlog[t][i].off - tlog[t][j].off) % (65535 * 512) = 0
    /\ EndsWithoutData(t)

\* Block 1 has gone out a second time, for the part of the file behind
\* block 65535, and the transfer has then ended on a duplicate ACK(65535).
C29_Witness ==
  \E t \in Spawned :
    /\ Cardinality({ i \in DataAt(t) : tlog[t][i].block = 1 }) = 2
    /\ tasks[t].end = "bad_ack" /\ Over(t)
    /\ tlog[t][Len(tlog[t])] = [ev |-> "recv", data |-> << 0, 4, 255, 255 >>]

\* ERROR(2, "Write not supported") as it stands on the wire.
WriteNotSupportedPacket ==
  << 0, 5, 0, 2, 87, 114, 105, 116, 101, 32, 110, 111, 116, 32, 115, 117, 112,
     112, 111, 114, 116, 101, 100, 0 >>

\* The step registers an inbox: a peer has an entry it did not have, or
\* another one than before.
EntryAdded ==
  \E p \in DOMAIN transfers' :
    p \notin DOMAIN transfers \/ transfers'[p] # transfers[p]

\* C34: in the main loop only an RRQ adds an entry to transfers; a WRQ is
\* answered with exactly ERROR(2, "Write not supported") and registers
\* nothing; an ACK from a peer with no inbox, a packet that does not parse
\* and DATA/ERROR packets produce no reply and leave transfers and every
\* running transfer as they were.
C34_OnlyRrqRegisters ==
  [][ /\ EntryAdded =>
           \E peer \in Peers, data \in RrqDatagrams :
             /\ data[1] = 0 /\ data[2] = 1
             /\ MainRecvRRQ(peer, data)
      /\ \A peer \in Peers :
           /\ \A data \in WrqDatagrams :
                MainRecvWRQ(peer, data) =>
                  /\ mainOut' = Append(mainOut, [to |-> peer,
                                                pkt |-> WriteNotSupportedPacket])
                  /\ UNCHANGED <<transfers, chans, tasks, tlog, mainPending>>
           /\ \A data \in AckDatagrams :
                (MainRecvAck(peer, data) /\ peer \notin DOMAIN transfers) =>
                  UNCHANGED tftpVars
           /\ \A data \in OtherDatagrams :
                MainRecvOther(peer, data) => UNCHANGED tftpVars
    ]_vars

\* A WRQ has been answered while a transfer waits for its ACK.
C34_Witness ==
  /\ Len(mainOut) >= 1
  /\ mainOut[Len(mainOut)].pkt = WriteNotSupportedPacket
  /\ \E t \in Spawned : tasks[t].pc = "wait" /\ Registered(t)

\* The block number of the DATA packet that carries the file from offset
\* off on: 1 for the first block, 1 again for the block after block 65535.
BlockAt(off) == ((off \div 512) % 65535) + 1

\* C33: the block number starts at 1, increases by 1 on each acknowledged
\* full block and resumes at 1 after 65535: block number 0 is never sent in
\* a DATA packet, and the ACK expected after the wrap is for block 1.
C33_BlockWrap ==
  \A t \in Spawned :
    /\ \A i \in DataAt(t) :
         /\ tlog[t][i].block = BlockAt(tlog[t][i].off)
         /\ tlog[t][i].block \in 1..65535
    /\ \A i \in 2..Len(tlog[t]) :
         (tlog[t][i].ev = "recv" /\ tlog[t][i - 1].ev = "data") =>
           (IsAckFor(tlog[t][i].data, BlockAt(tlog[t][i - 1].off))
              <=> ~(i = Len(tlog[t]) /\ tasks[t].end = "bad_ack"))
    /\ tasks[t].pc \in {"send", "wait"} =>
         tasks[t].block_num = BlockAt(tasks[t].offset)

\* After DATA(65535) the task has sent DATA(1) for the next part of the
\* file, has taken ACK(1) for it and has gone on to DATA(2).
C33_Witness ==
  \E t \in Spawned : \E i \in DataAt(t) :
    /\ tlog[t][i].block = 65535
    /\ i + 4 <= Len(tlog[t])
    /\ tlog[t][i + 2].ev = "data" /\ tlog[t][i + 2].block = 1
    /\ tlog[t][i + 2].off = 65535 * 512
    /\ tlog[t][i + 3] = [ev |-> "recv", data |-> << 0, 4, 0, 1 >>]
    /\ tlog[t][i + 4].ev = "data" /\ tlog[t][i + 4].block = 2

(***************************************************************************)
(* Calls of functions that touch no state of the server                    *)
(***************************************************************************)
\* A function returns: callRet holds what it returned.
CallReturn(fn, ret) ==
  /\ callFn = fn /\ ~callRet.some
  /\ callRet' = Some(ret)
  /\ UNCHANGED <<callFn, callArgs>>
  /\ UNCHANGED <<poolVars, codecVars, fsVars, tftpVars, tarVars, respVars, bootVars, lockVars>>

\* The function fn has returned.
Called(fn) == callFn = fn /\ callRet.some

(***************************************************************************)
(* ProtocolHandler::get_boot_filename                                      *)
(***************************************************************************)
\* Bound on the number of different override names.
MaxOverrides == 2

\* Override names: "c1", "c2", ...
Overrides == { Some(<< 99, 48 + i >>) : i \in 1..MaxOverrides } \cup { None }

BootProtocols == { "Efi", "Legacy", "DhcpBoot" }

FilenameConfigs ==
  { [efi |-> e, legacy |-> TRUE, dhcp_boot |-> TRUE, boot_filename_efi |-> oe,
     boot_filename_legacy |-> ol, boot_filename_dhcp_boot |-> od] :
      e \in BOOLEAN, oe \in Overrides, ol \in Overrides, od \in Overrides }

InitFilename ==
  /\ callFn = "get_boot_filename"
  /\ callArgs \in [protocol : BootProtocols, config : FilenameConfigs]
  /\ callRet = None

CallGetBootFilename ==
  CallReturn("get_boot_filename",
             GetBootFilename(callArgs.protocol, callArgs.config))

\* The override a configuration holds for a protocol.
OverrideOf(protocol, config) ==
  CASE protocol = "Efi" -> config.boot_filename_efi
    [] protocol = "Legacy" -> config.boot_filename_legacy
    [] protocol = "DhcpBoot" -> config.boot_filename_dhcp_boot

\* The compiled-in default of a protocol.
DefaultOf(protocol) ==
  CASE protocol = "Efi" -> << 98, 111, 111, 116, 120, 54, 52, 46, 101, 102, 105 >>
    [] protocol = "Legacy" -> << 112, 120, 101, 108, 105, 110, 117, 120, 46, 48 >>
    [] protocol = "DhcpBoot" -> << 112, 120, 101, 108, 105, 110, 117, 120, 46, 48 >>

\* C23: get_boot_filename(protocol) returns the override configured for
\* that protocol when one is set and otherwise the default (bootx64.efi for
\* EFI, pxelinux.0 for Legacy and for DhcpBoot); the overrides of the other
\* protocols do not change it.
C23_BootFilename ==
  Called("get_boot_filename") =>
    LET protocol == callArgs.protocol
        own == OverrideOf(protocol, callArgs.config)
    IN  /\ callRet.val = IF own.some THEN own.val ELSE DefaultOf(protocol)
        /\ \A other \in FilenameConfigs :
             OverrideOf(protocol, other) = own
               => GetBootFilename(protocol, other) = callRet.val

\* Legacy without an override of its own, next to an EFI override.
C23_Witness ==
  /\ Called("get_boot_filename")
  /\ callArgs.protocol = "Legacy"
  /\ callArgs.config.boot_filename_efi.some
  /\ ~callArgs.config.boot_filename_legacy.some
  /\ callRet.val = PxeLinux0

(***************************************************************************)
(* TftpPacket::build_ack, build_data, build_error, extract_filename        *)
(***************************************************************************)
\* Bounds on the payload of a DATA packet, on the message of an ERROR
\* packet and on the body of a request.
MaxPayload == 2

MaxBody == 3

\* Block numbers and error codes with every kind of high and low byte.
BlockSamples == { 0, 1, 255, 256, 257, 4660, U16_MAX - 1, U16_MAX }

\* Payload bytes; message bytes ("a", "b" and NUL, which a &str may hold).
PayloadBytes == { 0, 1, 128, 255 }

MessageBytes == { 0, 97, 98 }

\* Bytes of a request body: NUL, "a", "/", the two bytes of U+00E9 (valid
\* only in this order) and 255, which no UTF-8 text holds.
BodyBytes == { 0, 97, SLASH, 195, 169, 255 }

InitTftpCodec ==
  /\ callRet = None
  /\ \/ callFn = "build_ack" /\ callArgs \in [block_num : 0..U16_MAX]
     \/ callFn = "build_data"
          /\ callArgs \in [block_num : BlockSamples,
                           data : SeqsUpTo(PayloadBytes, MaxPayload)]
     \/ callFn = "build_error"
          /\ callArgs \in [code : BlockSamples,
                           message : SeqsUpTo(MessageBytes, MaxPayload)]
     \/ callFn = "extract_filename"
          /\ callArgs \in [opcode : 1..5, data : SeqsUpTo(BodyBytes, MaxBody)]

CallBuildAck == CallReturn("build_ack", BuildAck(callArgs.block_num))

CallBuildData ==
  CallReturn("build_data", BuildData(callArgs.block_num, callArgs.data))

CallBuildError ==
  CallReturn("build_error", BuildError(callArgs.code, callArgs.message))

CallExtractFilename == CallReturn("extract_filename", ExtractFilename(callArgs))

\* The two bytes of a 16-bit number, high byte first.
HiLo(x) == << x \div 256, x % 256 >>

\* The body of the request has a NUL.
HasNul == \E i \in 1..Len(callArgs.data) : callArgs.data[i] = 0

\* The bytes of the body before its first NUL (the whole body without one).
BeforeNul ==
  LET nuls == { i \in 1..Len(callArgs.data) : callArgs.data[i] = 0 }
      first == IF nuls = {} THEN Len(callArgs.data) + 1
               ELSE CHOOSE i \in nuls : \A j \in nuls : i <= j
  IN  SubSeq(callArgs.data, 1, first - 1)

\* What the three builders return.
BuildersFormat ==
  /\ Called("build_ack") =>
       /\ callRet.val = << 0, 4 >> \o HiLo(callArgs.block_num)
       /\ Len(callRet.val) = 4
  /\ Called("build_data") =>
       /\ callRet.val = << 0, 3 >> \o HiLo(callArgs.block_num) \o callArgs.data
       /\ Len(callRet.val) = 4 + Len(callArgs.data)
  /\ Called("build_error") =>
       callRet.val = << 0, 5 >> \o HiLo(callArgs.code) \o callArgs.message \o << 0 >>

\* C24: build_ack(block) = [0,4,hi,lo], exactly 4 bytes; build_data(block,
\* bytes) = [0,3,hi,lo] followed by bytes; build_error(code, msg) =
\* [0,5,hi,lo] followed by msg and one 0; extract_filename on an RRQ/WRQ
\* returns the bytes between the opcode and the first NUL.
C24_Builders ==
  /\ BuildersFormat
  /\ (Called("extract_filename") /\ callArgs.opcode \in {1, 2} /\ HasNul) =>
       (callRet.val.some /\ callRet.val.val = BeforeNul)

\* C24 as the code has it: extract_filename returns those bytes when they
\* are well-formed UTF-8, and nothing when they are not, when the body has
\* no NUL, or when the packet is no RRQ/WRQ.
C24_BuildersUtf8 ==
  /\ BuildersFormat
  /\ Called("extract_filename") =>
       IF callArgs.opcode \in {1, 2} /\ HasNul /\ IsUtf8(BeforeNul)
         THEN callRet.val.some /\ callRet.val.val = BeforeNul
         ELSE ~callRet.val.some

\* A request whose name holds a two-byte character, read back whole.
C24_Witness ==
  /\ Called("extract_filename")
  /\ callArgs.opcode = 1
  /\ callArgs.data = << 195, 169, 0 >>
  /\ callRet.val.some /\ callRet.val.val = << 195, 169 >>

(***************************************************************************)
(* DhcpMessage::get_option, get_message_type, get_client_arch              *)
(***************************************************************************)
\* Bound on the length of an options buffer.
MaxOptions == 4

\* Bytes of an options buffer: pad, small lengths, the two tags read by the
\* server, and the end tag.
OptionBytes == { 0, 1, 2, 53, 93, 255 }

OptionBuffers == SeqsUpTo(OptionBytes, MaxOptions)

InitOptions ==
  /\ callRet = None
  /\ \/ callFn = "get_option"
          /\ callArgs \in [options : OptionBuffers, option : {1, 53, 93}]
     \/ callFn \in {"get_message_type", "get_client_arch"}
          /\ callArgs \in [options : OptionBuffers]

CallGetOption ==
  CallReturn("get_option",
             [ret |-> GetOption(callArgs, callArgs.option),
              reads |-> GetOptionReads(callArgs.options, callArgs.option, 0)])

CallGetMessageType == CallReturn("get_message_type", GetMessageType(callArgs))

CallGetClientArch == CallReturn("get_client_arch", GetClientArch(callArgs))

\* The positions (from 0) at which a record of the buffer o begins when the
\* stream is read as the format defines it: a pad byte 0 is one byte long,
\* the end tag 255 ends the stream, any other tag is followed by a length
\* byte and that many payload bytes.
RecordStarts(o) ==
  LET IsStart[p \in 0..Len(o)] ==
        p = 0 \/ \E q \in 0..(p - 1) :
                   /\ IsStart[q]
                   /\ IF o[q + 1] = 0 THEN p = q + 1
                      ELSE /\ o[q + 1] # 255
                           /\ q + 1 < Len(o)
                           /\ p = q + 2 + o[q + 2]
  IN  { p \in 0..(Len(o) - 1) : IsStart[p] }

\* The same when a pad byte is read as a tag like any other.
TlvStarts(o) ==
  LET IsStart[p \in 0..Len(o)] ==
        p = 0 \/ \E q \in 0..(p - 1) :
                   /\ IsStart[q]
                   /\ o[q + 1] # 255
                   /\ q + 1 < Len(o)
                   /\ p = q + 2 + o[q + 2]
  IN  { p \in 0..(Len(o) - 1) : IsStart[p] }

\* The payload of the first complete record with the tag among the records
\* beginning at starts.
FirstRecord(o, starts, tag) ==
  LET complete == { p \in starts : /\ o[p + 1] = tag
                                    /\ p + 1 < Len(o)
                                    /\ p + 2 + o[p + 2] <= Len(o) }
  IN  IF complete = {} THEN None
      ELSE LET p == CHOOSE x \in complete : \A y \in complete : x <= y
           IN  Some(SubSeq(o, p + 3, p + 2 + o[p + 2]))

Same(a, b) == a.some = b.some /\ (a.some => a.val = b.val)

\* get_option has read inside the buffer only.
ReadsInside ==
  Called("get_option") => callRet.val.reads \subseteq 0..(Len(callArgs.options) - 1)

\* C26: for every options buffer and every tag, get_option reads inside the
\* buffer only and terminates; it returns the payload of the first complete
\* record with that tag before any end tag, and absent when there is none
\* or the matching record runs past the end; message_type is the first
\* byte of option 53 and client_arch the big-endian u16 of the first two
\* bytes of option 93.
C26_GetOption ==
  /\ ReadsInside
  /\ Called("get_option") =>
       Same(callRet.val.ret,
            FirstRecord(callArgs.options, RecordStarts(callArgs.options),
                        callArgs.option))
  /\ Called("get_message_type") =>
       LET v == FirstRecord(callArgs.options, RecordStarts(callArgs.options), 53)
       IN  IF v.some
             THEN callRet.val.some /\ Len(v.val) >= 1 /\ callRet.val.val = v.val[1]
             ELSE ~callRet.val.some
  /\ Called("get_client_arch") =>
       LET v == FirstRecord(callArgs.options, RecordStarts(callArgs.options), 93)
       IN  IF v.some
             THEN /\ callRet.val.some /\ Len(v.val) >= 2
                  /\ callRet.val.val = v.val[1] * 256 + v.val[2]
             ELSE ~callRet.val.some

\* What does hold: get_option reads inside the buffer and returns the first
\* complete record when every tag but 255, the pad 0 included, is taken to
\* have a length byte; the two readers return 0 for a payload too short.
GetOptionTlv ==
  /\ ReadsInside
  /\ Called("get_option") =>
       Same(callRet.val.ret,
            FirstRecord(callArgs.options, TlvStarts(callArgs.options),
                        callArgs.option))
  /\ Called("get_message_type") =>
       LET v == FirstRecord(callArgs.options, TlvStarts(callArgs.options), 53)
       IN  Same(callRet.val,
                IF v.some THEN Some(IF Len(v.val) >= 1 THEN v.val[1] ELSE 0)
                ELSE None)
  /\ Called("get_client_arch") =>
       LET v == FirstRecord(callArgs.options, TlvStarts(callArgs.options), 93)
       IN  Same(callRet.val,
                IF v.some
                  THEN Some(IF Len(v.val) >= 2 THEN v.val[1] * 256 + v.val[2] ELSE 0)
                  ELSE None)

\* The number of pad bytes at the front of the buffer o.
RECURSIVE LeadingPads(_)
LeadingPads(o) ==
  IF o = << >> \/ Head(o) # 0 THEN 0 ELSE 1 + LeadingPads(Tail(o))

\* C30: a tag byte 0 is padding, skipped by advancing one byte: an option
\* that follows any number of pad bytes is found with its payload.
C30_PadSkipped ==
  Called("get_option") =>
    LET o == callArgs.options
        k == LeadingPads(o)
    IN  (/\ k >= 1 /\ k + 1 < Len(o)
         /\ o[k + 1] = callArgs.option
         /\ k + 2 + o[k + 2] <= Len(o))
          => (/\ callRet.val.ret.some
              /\ callRet.val.ret.val = SubSeq(o, k + 3, k + 2 + o[k + 2]))

(***************************************************************************)
(* Specifications. A subsystem that a specification does not exercise is   *)
(* parked: its variables hold fixed values and never change.               *)
(***************************************************************************)
PoolParked ==
  /\ poolStart = <<0, 0, 0, 0>> /\ poolEnd = <<0, 0, 0, 0>>
  /\ current = <<0, 0, 0, 0>> /\ leases = << >>
  /\ leasesLock = NoThread /\ currentLock = NoThread
  /\ apc = << >> /\ amac = << >> /\ candidate = << >> /\ allocLog = << >>

CodecParked ==
  /\ wire = << >> /\ decoded = None /\ encoded = << >> /\ cpc = "parked"

FsParked ==
  /\ fsRoot = << >> /\ fsPath = << >>
  /\ fsCall = [op |-> "parked", res |-> Ok(<< >>)]

TftpParked ==
  /\ transfers = << >> /\ chans = << >> /\ tasks = << >> /\ tlog = << >>
  /\ mainPending = None /\ mainOut = << >>

TarParked ==
  /\ tarArchive = << >> /\ tarEntries = None /\ tarPath = << >>
  /\ tarCall = [op |-> "parked", res |-> Ok(<< >>)]

RespParked ==
  /\ respConfig = << >> /\ respLoop = "parked" /\ respLast = << >>
  /\ respCount = 0

BootParked ==
  /\ bootEnv = << >> /\ bootPc = "parked" /\ bootTasks = << >>
  /\ bootExit = None

CallParked == callFn = "parked" /\ callArgs = << >> /\ callRet = None

\* The lock is free and the receive loop waits in socket.recv_from.
LockParked == lockQueue = << >> /\ mainAt = "recv" /\ mainHand = None

NextPool == PoolStep

StartPool == InitPool /\ CodecParked /\ FsParked /\ TftpParked /\ TarParked /\ RespParked /\ BootParked /\ CallParked /\ LockParked

SpecPool == StartPool /\ [][NextPool]_vars

NextCodec == CodecStep

StartCodec == InitCodec /\ PoolParked /\ FsParked /\ TftpParked /\ TarParked /\ RespParked /\ BootParked /\ CallParked /\ LockParked

SpecCodec == StartCodec /\ [][NextCodec]_vars

NextFs == FsReadFile \/ FsExists

StartFs == InitFs /\ PoolParked /\ CodecParked /\ TftpParked /\ TarParked /\ RespParked /\ BootParked /\ CallParked /\ LockParked

SpecFs == StartFs /\ [][NextFs]_vars

NextTar == TarNew \/ TarCallReadFile \/ TarCallExists \/ TarCallListDir

StartTar == InitTar /\ PoolParked /\ CodecParked /\ FsParked /\ TftpParked /\ RespParked /\ BootParked /\ CallParked /\ LockParked

SpecTar == StartTar /\ [][NextTar]_vars

NextDhcp == DhcpStep

StartDhcp == InitResp /\ CodecParked /\ FsParked /\ TftpParked /\ TarParked /\ BootParked /\ CallParked /\ LockParked

SpecDhcp == StartDhcp /\ [][NextDhcp]_vars

NextBoot ==
  \/ BootCreateTftpFs
  \/ BootCreateHttpFs
  \/ BootDhcpNew
  \/ BootSpawn
  \/ \E sv \in Services : BootTaskStart(sv)
  \/ BootDhcpDiscover
  \/ \E sv \in Services : BootSelectTask(sv)
  \/ BootCtrlC

StartBoot == InitBoot /\ PoolParked /\ CodecParked /\ FsParked /\ TftpParked /\ TarParked /\ RespParked /\ CallParked /\ LockParked

SpecBoot == StartBoot /\ [][NextBoot]_vars

NextFilename == CallGetBootFilename

StartFilename == InitFilename /\ PoolParked /\ CodecParked /\ FsParked /\ TftpParked /\ TarParked /\ RespParked /\ BootParked /\ LockParked

SpecFilename == StartFilename /\ [][NextFilename]_vars

NextTftpCodec ==
  CallBuildAck \/ CallBuildData \/ CallBuildError \/ CallExtractFilename

StartTftpCodec == InitTftpCodec /\ PoolParked /\ CodecParked /\ FsParked /\ TftpParked /\ TarParked /\ RespParked /\ BootParked /\ LockParked

SpecTftpCodec == StartTftpCodec /\ [][NextTftpCodec]_vars

NextOptions == CallGetOption \/ CallGetMessageType \/ CallGetClientArch

StartOptions == InitOptions /\ PoolParked /\ CodecParked /\ FsParked /\ TftpParked /\ TarParked /\ RespParked /\ BootParked /\ LockParked

SpecOptions == StartOptions /\ [][NextOptions]_vars

NextTftp == TftpStep

\* One client, one transfer at a time, files of every shape of length.
NextTftpSolo ==
  \/ \E data \in SoloDatagrams :
       Acted < MaxSoloDatagrams /\ Len(chans) = 0 /\ MainRecvRRQ("A", data)
  \/ \E data \in SoloAckDatagrams :
       Acted < MaxSoloDatagrams /\ MainRecvAck("A", data)
  \/ MainForward
  \/ \E t \in TaskIds : TaskStart(t)
  \/ \E t \in TaskIds : TaskRead(t)
  \/ \E t \in TaskIds : TaskSendData(t)
  \/ \E t \in TaskIds : TaskSendDataFail(t)
  \/ \E t \in TaskIds : TaskRecvAck(t)
  \/ \E t \in TaskIds : TaskTimeout(t)
  \/ \E t \in TaskIds : TaskRemove(t)

\* Bound on the datagrams of the flood: A's RRQ, eleven ACKs of A and one
\* datagram more.
MaxFloodDatagrams == 12

\* Peer A asks for /h and then sends ACK(1) over and over; peer B asks for
\* /h too.
FloodRrq == Rrq(<< SLASH, 104 >>)

FloodAck == BuildAck(1)

\* The receive loop waits in tx.send(..).await: the ACK it took from the
\* socket cannot be queued because the peer's inbox is full and its
\* receiver is alive.
MainBlocked ==
  IF mainPending.some
    THEN /\ chans[mainPending.val.chan].rx
         /\ Len(chans[mainPending.val.chan].q) >= CHANNEL_CAPACITY
    ELSE FALSE

\* C20: while peer A's task is not draining its inbox of capacity 10,
\* however many ACKs A sends, the receive loop never blocks, so that the
\* datagrams of another peer B are still received.
C20_NeverBlocks == ~MainBlocked

NextTftpFlood ==
  \/ Acted < MaxFloodDatagrams /\ Len(chans) = 0 /\ MainRecvRRQ("A", FloodRrq)
  \/ Acted < MaxFloodDatagrams /\ Len(chans) = 1 /\ MainRecvRRQ("B", FloodRrq)
  \/ Acted < MaxFloodDatagrams /\ MainRecvAck("A", FloodAck)
  \/ MainForward
  \/ \E t \in TaskIds : TaskStart(t)
  \/ \E t \in TaskIds : TaskRead(t)
  \/ \E t \in TaskIds : TaskSendData(t)
  \/ \E t \in TaskIds : TaskRecvAck(t)
  \/ \E t \in TaskIds : TaskRemove(t)

StartTftpLong == InitTftpLong /\ PoolParked /\ CodecParked /\ FsParked /\ TarParked /\ RespParked /\ BootParked /\ CallParked /\ LockParked

SpecTftpLong == StartTftpLong /\ [][NextTftpLong]_vars

StartTftp == InitTftp /\ PoolParked /\ CodecParked /\ FsParked /\ TarParked /\ RespParked /\ BootParked /\ CallParked /\ LockParked

SpecTftp == StartTftp /\ [][NextTftp]_vars

SpecTftpSolo == StartTftp /\ [][NextTftpSolo]_vars

SpecTftpFlood == StartTftp /\ [][NextTftpFlood]_vars

SpecTftpFair == StartTftp /\ [][NextTftpFair]_vars /\ FairTasks

SpecTftpLock == StartTftp /\ [][NextTftpLock]_vars /\ FairTftpLock

====
